---- MODULE Spec2Model ----
(***************************************************************************)
(* Cache-aware concurrent query orchestrator of researchq / robora.        *)
(*                                                                         *)
(* Workflow.ask, Workflow.ask_multiple_stream (robora/workflow.py),        *)
(* Workflow.ask_question_set (researchq/ask.py), spray (autora/sprayer.py) *)
(* and SessionStorageProvider (researchq/session_storage.py) as a state    *)
(* machine.  The asyncio event loop is modelled by interleaving: a         *)
(* coroutine runs atomically from one await that really suspends to the    *)
(* next one.                                                               *)
(***************************************************************************)
EXTENDS Integers, Sequences, FiniteSets, TLC

\* ------------------------------------------------------------------ bounds
MaxQ == 2          \* longest candidate word list of a QuestionSet
MaxWorkers == 2    \* largest concurrency limit tried
MaxCalls == 2      \* number of Workflow.ask calls made
MaxRetries == 3    \* largest max_retries argument tried

\* ------------------------------------------------------------- data model
Null == "null"                       \* Python None inside a record field
None == [none |-> TRUE]              \* Python None where an object is expected

\* A Python str is a sequence of pieces of text, so that substitution really
\* concatenates: "France" is the one-piece string <<"France">>.
Words == { <<"France">>, <<"Germany">> }

Lit(s) == [kind |-> "lit", text |-> s]
Param(n) == [kind |-> "param", text |-> n]

\* A template is a sequence of literal and placeholder tokens.  The second
\* one mentions no parameter, so every word_set renders it to the same string.
Templates ==
    { <<Lit(<<"Does">>), Param("country")>>, <<Lit(<<"Does">>), Lit(<<"it">>)>> }

RECURSIVE ConcatAll(_)
ConcatAll(ss) == IF ss = <<>> THEN <<>> ELSE Head(ss) \o ConcatAll(Tail(ss))

\* Template.substitute(**word_set): every placeholder is replaced by the
\* value of its parameter ...
Substitute(template, word_set) ==
    [k \in DOMAIN template |->
        IF template[k].kind = "param" THEN word_set[template[k].text]
        ELSE template[k].text]

\* ... and the pieces are joined.  Question.get_string / Question.value
Value(question) == ConcatAll(Substitute(question.template, question.word_set))

\* the first list varies fastest
RECURSIVE ProductFirstFastest(_)
ProductFirstFastest(lists) ==
    IF lists = <<>> THEN << <<>> >>
    ELSE LET rest == ProductFirstFastest(Tail(lists))
         IN  ConcatAll([b \in 1..Len(rest) |->
                 [a \in 1..Len(Head(lists)) |-> <<Head(lists)[a]>> \o rest[b]]])

\* itertools.product(*lists): row-major, last list varying fastest.
RECURSIVE Product(_)
Product(lists) ==
    IF lists = <<>> THEN << <<>> >>
    ELSE LET rest == Product(Tail(lists))
         IN  ConcatAll([a \in 1..Len(Head(lists)) |->
                 [b \in 1..Len(rest) |-> <<Head(lists)[a]>> \o rest[b]]])

\* QuestionSet.word_sets is an insertion-ordered dict: a sequence of
\* [name, values] entries with distinct names.
WordSetOf(word_sets, combo) ==
    [n \in {word_sets[k].name : k \in DOMAIN word_sets} |->
        combo[CHOOSE k \in DOMAIN word_sets : word_sets[k].name = n]]

\* QuestionSet.get_questions
GetQuestions(question_set) ==
    LET combos == Product([k \in DOMAIN question_set.word_sets |->
                              question_set.word_sets[k].values])
    IN  [c \in 1..Len(combos) |->
            [word_set |-> WordSetOf(question_set.word_sets, combos[c]),
             template |-> question_set.template]]

\* QueryResponse(full_response, error)
QueryResponse(full_response, error) ==
    [full_response |-> full_response, error |-> error]

StaleResponses == { QueryResponse("stale", Null), QueryResponse(Null, "stale_error") }
FreshResponses == { QueryResponse("fresh", Null), QueryResponse(Null, "error") }

\* QueryHandler.extract_fields: a deterministic function of the payload.
ExtractFields(full_response) == { <<"content", full_response>> }

\* Answer.from_question: error is not a constructor argument and keeps the
\* class default None.
FromQuestion(question, full_response, fields) ==
    [word_set |-> question.word_set,
     question_template |-> question.template,
     question_value |-> Value(question),
     full_response |-> full_response,
     fields |-> fields,
     error |-> Null]

\* Workflow.build_answer
BuildAnswer(question, response) ==
    LET r == IF response = None THEN QueryResponse(Null, "No response") ELSE response
        fields == IF r.error = Null THEN ExtractFields(r.full_response) ELSE {}
    IN  FromQuestion(question, r.full_response, fields)

\* ---------------------------------------------- SessionStorageProvider
\* self._storage is a dict: a function whose domain is the keys present.
\* the key keeps the template and the word_set apart
GetQuestionKeyParts(question) == <<question.template, question.word_set>>

GetQuestionKey(question) == Value(question)

GetResponse(st, question) ==
    IF GetQuestionKey(question) \in DOMAIN st THEN st[GetQuestionKey(question)] ELSE None

\* the fields of an existing entry are updated one at a time and the update
\* stops after the payload
SaveResponseTorn(st, question, response) ==
    [k \in DOMAIN st \cup {GetQuestionKey(question)} |->
        IF k = GetQuestionKey(question)
        THEN IF k \in DOMAIN st
             THEN QueryResponse(response.full_response, st[k].error)
             ELSE response
        ELSE st[k]]

SaveResponse(st, question, response) ==
    [k \in DOMAIN st \cup {GetQuestionKey(question)} |->
        IF k = GetQuestionKey(question) THEN response ELSE st[k]]

Count(st) == Cardinality(DOMAIN st)

\* the entry is left in place
DeleteResponseKeep(st, question) == st

\* delete_response: "if key in self._storage: del self._storage[key]"
DeleteResponse(st, question) ==
    [k \in DOMAIN st \ {GetQuestionKey(question)} |-> st[k]]

\* clear: self._storage.clear()
Clear(st) == <<>>

\* ------------------------------------------------------------------ state
VARIABLES
    entry,          \* the entry point running: which batch function
    question_set,   \* the QuestionSet argument
    overwrite,      \* the overwrite argument
    max_workers,    \* Workflow.max_workers / max_concurrent
    storage,        \* SessionStorageProvider._storage
    pc,             \* position of the ask_multiple_stream generator
    idx,            \* loop index of the sweep / of the hit replay
    doc_hits,       \* list of (question, cached_response)
    doc_misses,     \* list of questions
    report,         \* the counts printed after the sweep, None before
    semaphore,      \* value of the asyncio.Semaphore
    started,        \* the nonlocal counter of process_question
    tasks,          \* one record per process_question coroutine
    completed,      \* as_completed: finished tasks in completion order
    yielded,        \* Answers handed to the consumer, in order
    results,        \* InMemoryStorage._results of spray
    calls,          \* the Workflow.ask coroutines
    seed,           \* the storage contents the ask calls started from
    writes,         \* log of the save_response calls made by ask
    run,            \* which run of ask_multiple_stream on this storage: 1 or 2
    first,          \* what the first run left behind, None during it
    reads,          \* the questions storage.get_response was called for
    max_retries,    \* the max_retries argument of query_sonar_structured
    attempt,        \* loop variable of "for attempt in range(max_retries)"
    result,         \* the result dict of query_sonar_structured
    llm_pc,         \* position of query_sonar_structured
    outcomes,       \* what each attempt made so far ended in
    counted,        \* values returned by QuestionSet.get_count
    expanded,       \* lists returned by QuestionSet.get_questions
    ops,            \* the calls made on the storage objects, with their returns
    db,             \* the query_results table of the SQLite database file
    spray_args      \* the arguments of spray other than the word lists

args == <<entry, question_set, overwrite, max_workers>>
askvars == <<calls, seed, writes>>
runvars == <<run, first>>
llmvars == <<max_retries, attempt, result, llm_pc, outcomes>>
expvars == <<counted, expanded>>
storevars == <<ops, db>>
morevars == <<storevars, spray_args>>
othervars == <<runvars, reads, llmvars, expvars, morevars>>

vars == <<entry, question_set, overwrite, max_workers, storage, pc, idx,
          doc_hits, doc_misses, report, semaphore, started, tasks,
          completed, yielded, results, calls, seed, writes, run, first,
          reads, max_retries, attempt, result, llm_pc, outcomes, counted,
          expanded, ops, db, spray_args>>

questions == GetQuestions(question_set)

\* the candidate lists tried: every list of at most MaxQ words
WordLists == UNION { [1..n -> Words] : n \in 0..MaxQ }

QuestionSets ==
    { [template |-> t, word_sets |-> << [name |-> "country", values |-> l] >>] :
        t \in Templates, l \in WordLists }

KeysOf(qs) == { Value(GetQuestions(qs)[k]) : k \in DOMAIN GetQuestions(qs) }

\* storages holding a stale response for some of the keys of the batch
Storages(qs) ==
    UNION { [ks -> StaleResponses] : ks \in SUBSET KeysOf(qs) }

\* ------------------------------------------- Workflow.ask_multiple_stream
\* any stored response counts, its error is not looked at
CacheUsableAnyEntry(response) == response # None

\* "cached_response is not None and not cached_response.error"
CacheUsable(response) == response # None /\ response.error = Null

\* the hit is put in front of the list
PrependHit(hits, q, response) == <<[q |-> q, response |-> response]>> \o hits

\* doc_hits.append((question, cached_response))
AppendHit(hits, q, response) == Append(hits, [q |-> q, response |-> response])

\* a semaphore that never blocks
CanAcquireUnguarded(value) == TRUE

\* asyncio.Semaphore: acquire proceeds only while the value is positive
CanAcquire(value) == value > 0

InFlight == Cardinality({ t \in DOMAIN tasks : tasks[t].state = "querying" })

\* no second run, query_sonar_structured not called, QuestionSet not expanded
FirstRun == run = 1 /\ first = None /\ reads = <<>>
NoClient ==
    /\ max_retries = 0
    /\ attempt = 0
    /\ result = None
    /\ llm_pc = "idle"
    /\ outcomes = <<>>
NoExpansion == counted = <<>> /\ expanded = <<>>
NoStore == ops = <<>> /\ db = <<>>
NoSpray == spray_args = None

Init ==
    /\ entry = "ask_multiple_stream"
    /\ question_set \in QuestionSets
    /\ overwrite \in BOOLEAN
    /\ max_workers \in 1..MaxWorkers
    /\ storage \in Storages(question_set)
    /\ pc = "sweep"
    /\ idx = 1
    /\ doc_hits = <<>>
    /\ doc_misses = <<>>
    /\ report = None
    /\ semaphore = 0
    /\ started = 0
    /\ tasks = <<>>
    /\ completed = <<>>
    /\ yielded = <<>>
    /\ results = <<>>
    /\ calls = <<>>
    /\ seed = <<>>
    /\ writes = <<>>
    /\ FirstRun
    /\ NoClient
    /\ NoExpansion
    /\ NoStore
    /\ NoSpray

\* the sweep puts the question on the miss list without looking it up
SweepNoRead ==
    /\ entry = "ask_multiple_stream"
    /\ pc = "sweep"
    /\ idx <= Len(questions)
    /\ doc_misses' = Append(doc_misses, idx)
    /\ idx' = idx + 1
    /\ UNCHANGED <<args, othervars, results, askvars, storage, pc, doc_hits,
                   report, semaphore, started, tasks, completed, yielded>>

\* one iteration of the doc sweep loop
Sweep ==
    /\ entry = "ask_multiple_stream"
    /\ pc = "sweep"
    /\ idx <= Len(questions)
    /\ IF ~overwrite
       THEN LET cached_response == GetResponse(storage, questions[idx])
            IN  /\ reads' = Append(reads, idx)
                /\ IF CacheUsable(cached_response)
                   THEN /\ doc_hits' = AppendHit(doc_hits, idx, cached_response)
                        /\ UNCHANGED doc_misses
                   ELSE /\ doc_misses' = Append(doc_misses, idx)
                        /\ UNCHANGED doc_hits
       ELSE /\ doc_misses' = Append(doc_misses, idx)
            /\ UNCHANGED <<doc_hits, reads>>
    /\ idx' = idx + 1
    /\ UNCHANGED <<args, morevars, runvars, llmvars, expvars, results, askvars, storage,
                   pc, report, semaphore, started, tasks, completed, yielded>>

\* the loop has ended: doc_hit_count and doc_miss_count are fixed and printed
SweepComplete ==
    /\ entry = "ask_multiple_stream"
    /\ pc = "sweep"
    /\ idx > Len(questions)
    /\ report' = [doc_hit_count |-> Len(doc_hits), doc_miss_count |-> Len(doc_misses)]
    /\ pc' = "hits"
    /\ idx' = 1
    /\ UNCHANGED <<args, othervars, results, askvars, storage,
                   doc_hits, doc_misses, semaphore, started, tasks, completed,
                   yielded>>

\* the hit is replayed without extracting the fields of its payload
YieldHitRaw ==
    /\ pc = "hits"
    /\ idx <= Len(doc_hits)
    /\ yielded' = Append(yielded,
          [answer |-> FromQuestion(questions[doc_hits[idx].q],
                                   doc_hits[idx].response.full_response, {}),
           q |-> doc_hits[idx].q, source |-> "hit"])
    /\ idx' = idx + 1
    /\ UNCHANGED <<args, othervars, results, askvars, storage, pc,
                   doc_hits, doc_misses, report, semaphore, started, tasks,
                   completed>>

\* "for question, cached_response in doc_hits: yield build_answer(...)"
YieldHit ==
    /\ pc = "hits"
    /\ idx <= Len(doc_hits)
    /\ yielded' = Append(yielded,
          [answer |-> BuildAnswer(questions[doc_hits[idx].q], doc_hits[idx].response),
           q |-> doc_hits[idx].q, source |-> "hit"])
    /\ idx' = idx + 1
    /\ UNCHANGED <<args, othervars, results, askvars, storage, pc,
                   doc_hits, doc_misses, report, semaphore, started, tasks,
                   completed>>

\* one task per expanded question, the hits included
DispatchAll ==
    /\ pc = "hits"
    /\ idx > Len(doc_hits)
    /\ doc_misses # <<>>
    /\ semaphore' = max_workers
    /\ started' = 0
    /\ tasks' = [t \in 1..Len(questions) |->
                    [q |-> t, state |-> "pending", response |-> None]]
    /\ pc' = "misses"
    /\ idx' = 1
    /\ UNCHANGED <<args, othervars, results, askvars, storage,
                   doc_hits, doc_misses, report, completed, yielded>>

\* "if doc_misses:" creates the semaphore and one task per miss
Dispatch ==
    /\ pc = "hits"
    /\ idx > Len(doc_hits)
    /\ doc_misses # <<>>
    /\ semaphore' = max_workers
    /\ started' = 0
    /\ tasks' = [t \in 1..Len(doc_misses) |->
                    [q |-> doc_misses[t], state |-> "pending", response |-> None]]
    /\ pc' = "misses"
    /\ idx' = 1
    /\ UNCHANGED <<args, othervars, results, askvars, storage,
                   doc_hits, doc_misses, report, completed, yielded>>

\* no miss: the generator returns after the last hit
StreamEnd ==
    /\ pc = "hits"
    /\ idx > Len(doc_hits)
    /\ doc_misses = <<>>
    /\ pc' = "done"
    /\ UNCHANGED <<args, othervars, results, askvars, storage, idx,
                   doc_hits, doc_misses, report, semaphore, started, tasks,
                   completed, yielded>>

\* process_question: "async with semaphore", started += 1, and the call of
\* query_handler.query inside _ask_without_cache_check, up to its await
Acquire(t) ==
    /\ entry = "ask_multiple_stream"
    /\ tasks[t].state = "pending"
    /\ CanAcquire(semaphore)
    /\ semaphore' = semaphore - 1
    /\ started' = started + 1
    /\ tasks' = [tasks EXCEPT ![t].state = "querying"]
    /\ UNCHANGED <<args, othervars, results, askvars, storage, pc,
                   idx, doc_hits, doc_misses, report, completed, yielded>>

\* the query returns a QueryResponse; the task suspends on save_response
QueryReturns(t, response) ==
    /\ entry = "ask_multiple_stream"
    /\ tasks[t].state = "querying"
    /\ tasks' = [tasks EXCEPT ![t].state = "saving", ![t].response = response]
    /\ UNCHANGED <<args, othervars, results, askvars, storage, pc,
                   idx, doc_hits, doc_misses, report, semaphore, started,
                   completed, yielded>>

\* the task that raises keeps its slot
QueryRaisesKeepsSlot(t) ==
    /\ entry = "ask_multiple_stream"
    /\ tasks[t].state = "querying"
    /\ tasks' = [tasks EXCEPT ![t].state = "failed"]
    /\ completed' = Append(completed, [task |-> t, ok |-> FALSE, answer |-> None])
    /\ UNCHANGED <<args, othervars, results, askvars, storage, pc, semaphore,
                   idx, doc_hits, doc_misses, report, started, yielded>>

\* the query raises (or returns None and the assert fails): process_question
\* prints and re-raises, "async with" releases the semaphore
QueryRaises(t) ==
    /\ entry = "ask_multiple_stream"
    /\ tasks[t].state = "querying"
    /\ tasks' = [tasks EXCEPT ![t].state = "failed"]
    /\ semaphore' = semaphore + 1
    /\ completed' = Append(completed, [task |-> t, ok |-> FALSE, answer |-> None])
    /\ UNCHANGED <<args, othervars, results, askvars, storage, pc,
                   idx, doc_hits, doc_misses, report, started, yielded>>

\* the response is answered from but never written to the storage
SaveNoWrite(t) ==
    /\ entry = "ask_multiple_stream"
    /\ tasks[t].state = "saving"
    /\ tasks' = [tasks EXCEPT ![t].state = "finished"]
    /\ semaphore' = semaphore + 1
    /\ completed' = Append(completed,
          [task |-> t, ok |-> TRUE,
           answer |-> BuildAnswer(questions[tasks[t].q], tasks[t].response)])
    /\ UNCHANGED <<args, othervars, results, askvars, storage, pc, idx,
                   doc_hits, doc_misses, report, started, yielded>>

\* storage.save_response returns; build_answer; return ans
Save(t) ==
    /\ entry = "ask_multiple_stream"
    /\ tasks[t].state = "saving"
    /\ storage' = SaveResponse(storage, questions[tasks[t].q], tasks[t].response)
    /\ tasks' = [tasks EXCEPT ![t].state = "finished"]
    /\ semaphore' = semaphore + 1
    /\ completed' = Append(completed,
          [task |-> t, ok |-> TRUE,
           answer |-> BuildAnswer(questions[tasks[t].q], tasks[t].response)])
    /\ UNCHANGED <<args, othervars, results, askvars, pc, idx,
                   doc_hits, doc_misses, report, started, yielded>>

\* storage.save_response raises: nothing is written, the task re-raises
SaveRaises(t) ==
    /\ entry = "ask_multiple_stream"
    /\ tasks[t].state = "saving"
    /\ tasks' = [tasks EXCEPT ![t].state = "failed"]
    /\ semaphore' = semaphore + 1
    /\ completed' = Append(completed, [task |-> t, ok |-> FALSE, answer |-> None])
    /\ UNCHANGED <<args, othervars, results, askvars, storage, pc,
                   idx, doc_hits, doc_misses, report, started, yielded>>

\* "for coro in asyncio.as_completed(tasks): answer = await coro; yield answer"
\* on the next finished task: its Answer is yielded; the generator returns
\* after the last one
YieldMiss ==
    /\ pc = "misses"
    /\ idx <= Len(completed)
    /\ completed[idx].ok
    /\ yielded' = Append(yielded,
          [answer |-> completed[idx].answer, q |-> tasks[completed[idx].task].q,
           source |-> "miss"])
    /\ idx' = idx + 1
    /\ pc' = IF idx = Len(tasks) THEN "done" ELSE "misses"
    /\ UNCHANGED <<args, othervars, results, askvars, storage,
                   doc_hits, doc_misses, report, semaphore, started, tasks,
                   completed>>

\* "await coro" on a task that raised: the exception leaves the generator;
\* the other tasks stay scheduled on the event loop
StreamRaises ==
    /\ pc = "misses"
    /\ idx <= Len(completed)
    /\ ~completed[idx].ok
    /\ pc' = "raised"
    /\ UNCHANGED <<args, othervars, results, askvars, storage, idx,
                   doc_hits, doc_misses, report, semaphore, started, tasks,
                   completed, yielded>>

Next ==
    \/ Sweep
    \/ SweepComplete
    \/ YieldHit
    \/ Dispatch
    \/ StreamEnd
    \/ \E t \in DOMAIN tasks : Acquire(t)
    \/ \E t \in DOMAIN tasks : \E response \in FreshResponses : QueryReturns(t, response)
    \/ \E t \in DOMAIN tasks : QueryRaises(t)
    \/ \E t \in DOMAIN tasks : Save(t)
    \/ \E t \in DOMAIN tasks : SaveRaises(t)
    \/ YieldMiss
    \/ StreamRaises

Spec == Init /\ [][Next]_vars

\* ------------------------- Workflow.ask_question_set (researchq/ask.py)
\* the semaphore and one process_question coroutine per expanded question
QSDispatch ==
    /\ entry = "ask_question_set"
    /\ pc = "start"
    /\ semaphore' = max_workers
    /\ tasks' = [t \in 1..Len(questions) |->
                    [q |-> t, state |-> "pending", response |-> None]]
    /\ pc' = IF Len(questions) = 0 THEN "done" ELSE "misses"
    /\ idx' = 1
    /\ UNCHANGED <<args, othervars, results, askvars, storage, doc_hits, doc_misses,
                   report, started, completed, yielded>>

\* "async with semaphore" and ask up to the await of query_handler.query
QSAcquire(t) ==
    /\ entry = "ask_question_set"
    /\ tasks[t].state = "pending"
    /\ CanAcquire(semaphore)
    /\ semaphore' = semaphore - 1
    /\ tasks' = [tasks EXCEPT ![t].state = "querying"]
    /\ UNCHANGED <<args, othervars, results, askvars, storage, pc, idx, doc_hits,
                   doc_misses, report, started, completed, yielded>>

\* the query returns a response with a payload
QSQueryReturns(t, response) ==
    /\ entry = "ask_question_set"
    /\ tasks[t].state = "querying"
    /\ response.full_response # Null
    /\ tasks' = [tasks EXCEPT ![t].state = "saving", ![t].response = response]
    /\ UNCHANGED <<args, othervars, results, askvars, storage, pc, idx, doc_hits,
                   doc_misses, report, semaphore, started, completed, yielded>>

\* the query raises, or returns a response without payload and
\* "assert response.full_response is not None" raises
QSQueryFails(t) ==
    /\ entry = "ask_question_set"
    /\ tasks[t].state = "querying"
    /\ tasks' = [tasks EXCEPT ![t].state = "failed"]
    /\ semaphore' = semaphore + 1
    /\ completed' = Append(completed, [task |-> t, ok |-> FALSE, answer |-> None])
    /\ UNCHANGED <<args, othervars, results, askvars, storage, pc, idx, doc_hits,
                   doc_misses, report, started, yielded>>

\* save_response(question, response.full_response): the payload is stored;
\* extract_fields; Answer.from_question
QSSave(t) ==
    /\ entry = "ask_question_set"
    /\ tasks[t].state = "saving"
    /\ storage' = SaveResponse(storage, questions[t], tasks[t].response.full_response)
    /\ tasks' = [tasks EXCEPT ![t].state = "finished"]
    /\ semaphore' = semaphore + 1
    /\ completed' = Append(completed,
          [task |-> t, ok |-> TRUE,
           answer |-> FromQuestion(questions[t], tasks[t].response.full_response,
                                   ExtractFields(tasks[t].response.full_response))])
    /\ UNCHANGED <<args, othervars, results, askvars, pc, idx, doc_hits, doc_misses,
                   report, started, yielded>>

\* ------------------------------------ what the storages do with a dict
\* "if 'timestamp' not in ...: ...['timestamp'] = datetime.now().isoformat()"
AddTimestamp(row) ==
    IF "timestamp" \in DOMAIN row THEN row ELSE row @@ [timestamp |-> "now"]

Columns ==
    { "query_id", "research_question", "sonar_response", "sonar_response_json",
      "question_template", "search_results", "citations", "enriched_citations",
      "content", "structured_data", "parsing_success", "parsing_error",
      "retries_used", "timestamp", "word_dict" }

JsonFields ==
    { "sonar_response_json", "search_results", "citations",
      "enriched_citations", "structured_data", "word_dict" }

\* json.dumps / json.loads: the text of a value is not the value
Dumps(v) == [json |-> v]
Loads(text) == text.json

\* the table is emptied but the rows inserted last stay
DeleteKeepLast(table) == IF table = <<>> THEN <<>> ELSE <<table[Len(table)]>>

\* _clear_all_sync: DELETE FROM query_results, commit
DeleteAll(table) == <<>>

\* the statement is executed but the transaction is not committed
StoreResultSyncNoCommit(table, row, id, created_at) == table

\* _store_result_sync: one INSERT of the fifteen columns (data.get(column),
\* so NULL for a missing key; the JSON fields as text), then commit.  Keys
\* of the dict that are not columns are not written.
StoreResultSync(table, row, id, created_at) ==
    Append(table,
        [id |-> id, created_at |-> created_at,
         columns |-> [c \in Columns |->
            IF c \in JsonFields
            THEN IF c \in DOMAIN AddTimestamp(row) /\ AddTimestamp(row)[c] # None
                 THEN Dumps(AddTimestamp(row)[c]) ELSE None
            ELSE IF c \in DOMAIN AddTimestamp(row) THEN AddTimestamp(row)[c] ELSE Null]])

\* dict(row), JSON fields parsed back, word_dict expanded to the top level
ResultDict(dbrow) ==
    LET dict == [c \in Columns |->
                      IF c \in JsonFields /\ dbrow.columns[c] # None
                      THEN Loads(dbrow.columns[c]) ELSE dbrow.columns[c]]
                  @@ [id |-> dbrow.id, created_at |-> dbrow.created_at]
    IN  IF dict["word_dict"] # None THEN dict["word_dict"] @@ dict ELSE dict

\* "ORDER BY created_at DESC": the orders in which SELECT may return the
\* rows; rows created within the same second come in either order
Orders(table) ==
    { p \in [DOMAIN table -> DOMAIN table] :
        /\ \A i, j \in DOMAIN table : i # j => p[i] # p[j]
        /\ \A i, j \in DOMAIN table :
              i < j => table[p[i]].created_at >= table[p[j]].created_at }

\* _retrieve_results_sync without filters, the rows coming in order p
RetrieveResultsSync(table, p) == [k \in DOMAIN table |-> ResultDict(table[p[k]])]

\* ------------------------------------------- spray (autora/sprayer.py)
\* any storage argument is taken
ValidStorageAny(storage_arg) == TRUE

\* the storage set-up of spray: None, a QueryStorage instance, or a string
\* that create_storage knows; anything else raises ValueError
ValidStorage(storage_arg) == storage_arg \in {"None", "memory", "sqlite", "QueryStorage"}

\* the cap counts word combinations
AllTasksCapCombos ==
    LET pairs == ConcatAll([c \in DOMAIN questions |->
                    [j \in DOMAIN spray_args.research_questions |->
                        [word_dict |-> questions[c].word_set,
                         question_template |-> spray_args.research_questions[j]]]])
        cap == IF spray_args.max_queries = <<>> THEN Len(pairs)
               ELSE spray_args.max_queries[1] * Len(spray_args.research_questions)
    IN  SubSeq(pairs, 1, IF cap < Len(pairs) THEN cap ELSE Len(pairs))

\* all_tasks: one task per word combination (outer loop) and research
\* question (inner loop); with max_queries given (a one-element sequence,
\* <<>> for None) both loops break once query_count has reached it
AllTasks ==
    LET pairs == ConcatAll([c \in DOMAIN questions |->
                    [j \in DOMAIN spray_args.research_questions |->
                        [word_dict |-> questions[c].word_set,
                         question_template |-> spray_args.research_questions[j]]]])
        cap == IF spray_args.max_queries = <<>> THEN Len(pairs)
               ELSE spray_args.max_queries[1]
    IN  SubSeq(pairs, 1, IF cap < Len(pairs) THEN cap ELSE Len(pairs))

\* question_template.format(**word_dict) raises KeyError for a placeholder
\* that is not a key of word_dict
Formattable(task) ==
    \A k \in DOMAIN task.question_template :
        task.question_template[k].kind = "param" =>
            task.question_template[k].text \in DOMAIN task.word_dict

\* the error of the query leaves process_single_query
AfterQueryReRaise(payload) == IF payload = "error" THEN "failed" ELSE "storing"

\* the query returns its payload, or raises and "except Exception" turns
\* the error into the payload: either way the row is built next
AfterQuery(payload) == "storing"

\* row_data: the word_dict, then the named fields over it
RowData(t, payload) ==
    [query_id |-> t,
     research_question |-> Value([template |-> AllTasks[t].question_template,
                                  word_set |-> AllTasks[t].word_dict]),
     sonar_response |-> IF payload = "error" THEN "Error: error" ELSE "content",
     sonar_response_json |-> [payload |-> payload],
     question_template |-> AllTasks[t].question_template,
     word_dict |-> AllTasks[t].word_dict] @@ AllTasks[t].word_dict

\* the storage is set up first; an argument that is no storage raises
\* before all_tasks is built
SprayStart ==
    /\ entry = "spray"
    /\ pc = "start"
    /\ IF ValidStorage(spray_args.storage)
       THEN /\ tasks' = [t \in 1..Len(AllTasks) |->
                            [q |-> t, state |-> "pending", response |-> None]]
            /\ semaphore' = IF max_workers <= 1 THEN 0 ELSE max_workers
            /\ pc' = "running"
       ELSE /\ pc' = "raised"
            /\ UNCHANGED <<tasks, semaphore>>
    /\ UNCHANGED <<args, othervars, results, askvars, storage, idx, doc_hits, doc_misses,
                   report, started, completed, yielded>>

\* max_concurrent <= 1: the for loop awaits task t after task t-1 and its
\* sleep; otherwise process_with_semaphore enters "async with semaphore"
\* (the tasks of asyncio.gather stay scheduled when gather has raised).
\* process_single_query formats the question and runs up to the await of
\* the query.
SprayAcquire(t) ==
    /\ entry = "spray"
    /\ tasks[t].state = "pending"
    /\ Formattable(AllTasks[t])
    /\ IF max_workers <= 1
       THEN /\ pc = "running"
            /\ \A u \in DOMAIN tasks : u < t => tasks[u].state = "finished"
            /\ UNCHANGED semaphore
       ELSE /\ pc \in {"running", "raised"}
            /\ CanAcquire(semaphore)
            /\ semaphore' = semaphore - 1
    /\ tasks' = [tasks EXCEPT ![t].state = "querying"]
    /\ UNCHANGED <<args, othervars, results, askvars, storage, pc, idx, doc_hits,
                   doc_misses, report, started, completed, yielded>>

\* format raises KeyError outside the try block: the error leaves
\* process_single_query, and with it the loop or asyncio.gather
SprayFormatRaises(t) ==
    /\ entry = "spray"
    /\ tasks[t].state = "pending"
    /\ ~Formattable(AllTasks[t])
    /\ IF max_workers <= 1
       THEN /\ pc = "running"
            /\ \A u \in DOMAIN tasks : u < t => tasks[u].state = "finished"
       ELSE /\ pc \in {"running", "raised"}
            /\ CanAcquire(semaphore)
    /\ tasks' = [tasks EXCEPT ![t].state = "failed"]
    /\ pc' = "raised"
    /\ UNCHANGED <<args, othervars, results, askvars, storage, idx, doc_hits,
                   doc_misses, report, semaphore, started, completed, yielded>>

\* the query ends, by a return or by an exception
SprayQueryEnds(t, payload) ==
    /\ entry = "spray"
    /\ tasks[t].state = "querying"
    /\ tasks' = [tasks EXCEPT ![t].state = AfterQuery(payload), ![t].response = payload]
    /\ pc' = IF AfterQuery(payload) = "failed" THEN "raised" ELSE pc
    /\ semaphore' = IF AfterQuery(payload) = "failed" /\ max_workers > 1
                    THEN semaphore + 1 ELSE semaphore
    /\ UNCHANGED <<args, othervars, results, askvars, storage, idx, doc_hits,
                   doc_misses, report, started, completed, yielded>>

\* storage.store_query_result stores the row; then asyncio.sleep, except
\* after the last task of the sequential loop
SprayStore(t) ==
    /\ entry = "spray"
    /\ tasks[t].state = "storing"
    /\ IF spray_args.storage = "sqlite"
       THEN /\ db' = StoreResultSync(db, RowData(t, tasks[t].response),
                                     Len(db) + 1, Len(db) + 1)
            /\ UNCHANGED results
       ELSE /\ results' = Append(results, AddTimestamp(RowData(t, tasks[t].response)))
            /\ UNCHANGED db
    /\ tasks' = [tasks EXCEPT ![t].state =
          IF max_workers <= 1 /\ t = Len(tasks) THEN "finished" ELSE "sleeping"]
    /\ UNCHANGED <<args, runvars, reads, llmvars, expvars, ops, spray_args, askvars,
                   storage, pc, idx, doc_hits, doc_misses, report, semaphore, started,
                   completed, yielded>>

\* the sleep ends; the concurrent branch leaves "async with semaphore"
SprayWake(t) ==
    /\ entry = "spray"
    /\ tasks[t].state = "sleeping"
    /\ tasks' = [tasks EXCEPT ![t].state = "finished"]
    /\ semaphore' = IF max_workers <= 1 THEN semaphore ELSE semaphore + 1
    /\ UNCHANGED <<args, othervars, results, askvars, storage, pc, idx, doc_hits,
                   doc_misses, report, started, completed, yielded>>

\* the loop or asyncio.gather has ended: the table is read back with
\* storage_instance.retrieve_as_dataframe(), without a filter, and returned
SprayReturn ==
    /\ entry = "spray"
    /\ pc = "running"
    /\ \A t \in DOMAIN tasks : tasks[t].state = "finished"
    /\ pc' = "done"
    /\ IF spray_args.storage = "sqlite"
       THEN \E p \in Orders(db) : yielded' = RetrieveResultsSync(db, p)
       ELSE yielded' = results
    /\ UNCHANGED <<args, othervars, results, askvars, storage, idx, doc_hits, doc_misses,
                   report, semaphore, started, tasks, completed>>

SprayPayloads == { "fresh", "error" }

\* ------------------------------ the three batch entry points together
InitDispatch ==
    /\ entry \in {"ask_multiple_stream", "ask_question_set", "spray"}
    /\ question_set \in QuestionSets
    /\ max_workers \in 1..MaxWorkers
    /\ IF entry = "ask_multiple_stream"
       THEN /\ overwrite \in BOOLEAN
            /\ storage \in Storages(question_set)
            /\ pc = "sweep"
       ELSE /\ overwrite = FALSE
            /\ storage = <<>>
            /\ pc = "start"
    /\ idx = 1
    /\ doc_hits = <<>>
    /\ doc_misses = <<>>
    /\ report = None
    /\ semaphore = 0
    /\ started = 0
    /\ tasks = <<>>
    /\ completed = <<>>
    /\ yielded = <<>>
    /\ results = <<>>
    /\ calls = <<>>
    /\ seed = <<>>
    /\ writes = <<>>
    /\ FirstRun
    /\ NoClient
    /\ NoExpansion
    /\ NoStore
    /\ spray_args = IF entry = "spray"
                    THEN [storage |-> "None", max_queries |-> <<>>,
                          research_questions |-> <<question_set.template>>]
                    ELSE None

NextDispatch ==
    \/ Next
    \/ QSDispatch
    \/ \E t \in DOMAIN tasks : QSAcquire(t)
    \/ \E t \in DOMAIN tasks : \E response \in FreshResponses : QSQueryReturns(t, response)
    \/ \E t \in DOMAIN tasks : QSQueryFails(t)
    \/ \E t \in DOMAIN tasks : QSSave(t)
    \/ SprayStart
    \/ \E t \in DOMAIN tasks : SprayAcquire(t)
    \/ \E t \in DOMAIN tasks : \E payload \in SprayPayloads : SprayQueryEnds(t, payload)
    \/ \E t \in DOMAIN tasks : SprayStore(t)
    \/ \E t \in DOMAIN tasks : SprayWake(t)
    \/ SprayReturn

SpecDispatch == InitDispatch /\ [][NextDispatch]_vars

Hits == { a \in DOMAIN yielded : yielded[a].source = "hit" }
Misses == { a \in DOMAIN yielded : yielded[a].source = "miss" }
StreamEnded == pc \in {"done", "raised"}
AnswersFor(k) == { a \in DOMAIN yielded : yielded[a].q = k }
TaskOf(k) == { t \in DOMAIN tasks : tasks[t].q = k }

\* C2: in ask_multiple_stream every hit Answer is yielded before any miss
\* Answer, and the hit Answers keep the relative order of their questions
\* in the expansion.
C2_HitsFirstInOrder ==
    /\ \A a, b \in DOMAIN yielded :
          (a < b /\ yielded[b].source = "hit") =>
              /\ yielded[a].source = "hit"
              /\ yielded[a].q < yielded[b].q
    /\ Misses # {} => Cardinality(Hits) = Len(doc_hits)

\* a hit has been replayed and the Answer of a miss was yielded after it
C2_Witness ==
    \E a, b \in DOMAIN yielded :
        /\ a < b
        /\ yielded[a].source = "hit"
        /\ yielded[b].source = "miss"

\* the questions holding a stored response without error
StoredUsable ==
    { k \in DOMAIN questions :
        /\ GetResponse(storage, questions[k]) # None
        /\ GetResponse(storage, questions[k]).error = Null }

\* C3: without overwrite, on a storage holding an error-free response for
\* exactly H of the N expanded questions, the sweep reports H hits and
\* N - H misses, and exactly N Answers have been yielded when the stream
\* ends.  (The storage is still the initial one until the dispatch.)
C3_SweepCountsAndTotal ==
    ~overwrite =>
        /\ (pc = "hits" /\ tasks = <<>>) =>
              /\ report.doc_hit_count = Cardinality(StoredUsable)
              /\ report.doc_miss_count = Len(questions) - Cardinality(StoredUsable)
        /\ StreamEnded => Len(yielded) = Len(questions)

\* C4: every Question submitted to ask_multiple_stream yields exactly one
\* Answer carrying its word_set and question value; never two, and exactly
\* one once the stream has ended.
C4_ExactlyOneAnswer ==
    \A k \in DOMAIN questions :
        /\ Cardinality(AnswersFor(k)) <= 1
        /\ \A a \in AnswersFor(k) :
              /\ yielded[a].answer.word_set = questions[k].word_set
              /\ yielded[a].answer.question_value = Value(questions[k])
        /\ StreamEnded => Cardinality(AnswersFor(k)) = 1

\* C5: a failure of the query or of the storage write of one miss is not
\* raised to the consumer, and the Answers of all other questions are
\* still delivered.
C5_NoErrorAbortsBatch ==
    /\ pc # "raised"
    /\ StreamEnded =>
          \A k \in DOMAIN questions :
              (\A t \in TaskOf(k) : tasks[t].state # "failed") => AnswersFor(k) # {}

\* the questions swept so far
Swept == IF pc = "sweep" THEN 1..(idx - 1) ELSE DOMAIN questions

C7_OverwriteRefreshesAll ==
    overwrite =>
        /\ report # None =>
              /\ report.doc_hit_count = 0
              /\ report.doc_miss_count = Len(questions)
        /\ StreamEnded =>
              \A k \in DOMAIN questions :
                  \E t \in TaskOf(k) :
                      /\ tasks[t].state \notin {"pending"}
                      /\ tasks[t].response # None
                      /\ GetResponse(storage, questions[k]) = tasks[t].response

\* ------------------------------------------------------- Workflow.ask
\* get_response has not been called
Unread == [unread |-> TRUE]

\* the cache is read whatever the flag says
ShouldReadAlways(ow) == TRUE

\* "if not overwrite:"
ShouldRead(ow) == ~ow

\* every cached response is dropped
FlushAlways(response) == None

\* a cached response is served whatever its error is
FlushNever(response) == response

\* "if response.error: ... response = None"
Flush(response) ==
    IF response # None /\ response.error # Null THEN None ELSE response

Finished(c) == calls[c].state \in {"returned", "raised"}

\* ask runs up to its first real suspension: the cache check, then either
\* build_answer and return, or the call of query_handler.query
AskStart(q, ow) ==
    /\ entry = "ask"
    /\ Len(calls) < MaxCalls
    /\ LET read == IF ShouldRead(ow) THEN GetResponse(storage, questions[q]) ELSE Unread
           response == IF ShouldRead(ow) THEN Flush(read) ELSE None
           call == [q |-> q, overwrite |-> ow, read |-> read,
                    preceded_by |-> { c \in DOMAIN calls : Finished(c) }]
       IN  calls' = Append(calls,
               IF response = None
               THEN call @@ [state |-> "querying", queried |-> TRUE,
                             response |-> None, answer |-> None,
                             stored_at_return |-> None]
               ELSE call @@ [state |-> "returned", queried |-> FALSE,
                             response |-> response,
                             answer |-> BuildAnswer(questions[q], response),
                             stored_at_return |-> GetResponse(storage, questions[q])])
    /\ UNCHANGED <<args, othervars, results, seed, writes, storage, pc, idx, doc_hits,
                   doc_misses, report, semaphore, started, tasks, completed,
                   yielded>>

\* the query returns a QueryResponse; ask suspends on save_response
AskQueryReturns(c, response) ==
    /\ entry = "ask"
    /\ calls[c].state = "querying"
    /\ calls' = [calls EXCEPT ![c].state = "saving", ![c].response = response]
    /\ UNCHANGED <<args, othervars, results, seed, writes, storage, pc, idx, doc_hits,
                   doc_misses, report, semaphore, started, tasks, completed,
                   yielded>>

\* the query raises, or returns None and the assert fails: ask raises
AskQueryRaises(c) ==
    /\ entry = "ask"
    /\ calls[c].state = "querying"
    /\ calls' = [calls EXCEPT ![c].state = "raised"]
    /\ UNCHANGED <<args, othervars, results, seed, writes, storage, pc, idx, doc_hits,
                   doc_misses, report, semaphore, started, tasks, completed,
                   yielded>>

\* save_response writes the entry; build_answer; return answer
AskSave(c) ==
    /\ entry = "ask"
    /\ calls[c].state = "saving"
    /\ storage' = SaveResponse(storage, questions[calls[c].q], calls[c].response)
    /\ writes' = Append(writes,
          [call |-> c, key |-> GetQuestionKey(questions[calls[c].q]),
           response |-> calls[c].response])
    /\ calls' = [calls EXCEPT
          ![c].state = "returned",
          ![c].answer = BuildAnswer(questions[calls[c].q], calls[c].response),
          ![c].stored_at_return = GetResponse(storage', questions[calls[c].q])]
    /\ UNCHANGED <<args, othervars, results, seed, pc, idx, doc_hits, doc_misses, report,
                   semaphore, started, tasks, completed, yielded>>

\* save_response raises: nothing is written and ask raises
AskSaveRaises(c) ==
    /\ entry = "ask"
    /\ calls[c].state = "saving"
    /\ calls' = [calls EXCEPT ![c].state = "raised"]
    /\ UNCHANGED <<args, othervars, results, seed, writes, storage, pc, idx, doc_hits,
                   doc_misses, report, semaphore, started, tasks, completed,
                   yielded>>

\* the Questions asked: two words under each template, so two Questions
\* with different strings or two Questions rendering to the same string
AskQuestionSets ==
    { [template |-> t,
       word_sets |-> << [name |-> "country", values |-> << <<"France">>, <<"Germany">> >>] >>] :
        t \in Templates }

InitAsk ==
    /\ entry = "ask"
    /\ question_set \in AskQuestionSets
    /\ overwrite = FALSE
    /\ max_workers = 1
    /\ storage \in Storages(question_set)
    /\ seed = storage
    /\ pc = "start"
    /\ idx = 1
    /\ doc_hits = <<>>
    /\ doc_misses = <<>>
    /\ report = None
    /\ semaphore = 0
    /\ started = 0
    /\ tasks = <<>>
    /\ completed = <<>>
    /\ yielded = <<>>
    /\ results = <<>>
    /\ calls = <<>>
    /\ writes = <<>>
    /\ FirstRun
    /\ NoClient
    /\ NoExpansion
    /\ NoStore
    /\ NoSpray

NextAsk ==
    \/ \E q \in DOMAIN questions : \E ow \in BOOLEAN : AskStart(q, ow)
    \/ \E c \in DOMAIN calls : \E response \in FreshResponses : AskQueryReturns(c, response)
    \/ \E c \in DOMAIN calls : AskQueryRaises(c)
    \/ \E c \in DOMAIN calls : AskSave(c)
    \/ \E c \in DOMAIN calls : AskSaveRaises(c)

SpecAsk == InitAsk /\ [][NextAsk]_vars

KeyOfCall(c) == GetQuestionKey(questions[calls[c].q])

\* b is a second call for the Question of a, made after a has finished,
\* both without overwrite, no other call working on that entry
Twice(a, b) ==
    /\ a # b
    /\ calls[a].q = calls[b].q
    /\ ~calls[a].overwrite
    /\ ~calls[b].overwrite
    /\ a \in calls[b].preceded_by
    /\ \A c \in DOMAIN calls \ {a, b} : KeyOfCall(c) # KeyOfCall(a)

C9_OverwriteAlwaysQueries ==
    \A c \in DOMAIN calls :
        calls[c].overwrite =>
            /\ calls[c].queried
            /\ calls[c].read = Unread
            /\ calls[c].state = "returned" =>
                  /\ calls[c].response \in FreshResponses
                  /\ calls[c].stored_at_return = calls[c].response

\* an overwrite call has returned although the cache held an error-free
\* entry for its question
C9_Witness ==
    \E c \in DOMAIN calls :
        /\ calls[c].overwrite
        /\ calls[c].state = "returned"
        /\ KeyOfCall(c) \in DOMAIN seed
        /\ seed[KeyOfCall(c)].error = Null

WritesTo(key) == { w \in DOMAIN writes : writes[w].key = key }

LastWriteTo(key) == CHOOSE w \in WritesTo(key) : \A v \in WritesTo(key) : v <= w

\* C10: under every interleaving of overlapping ask calls, each read of a
\* key returned absent or one complete response that was stored for that
\* key, and the entry of a key is the response of the write to it that
\* completed last (in particular once all calls have finished).
C10_NoTornReadLastWriteWins ==
    /\ \A c \in DOMAIN calls :
          \/ calls[c].read \in {Unread, None}
          \/ KeyOfCall(c) \in DOMAIN seed /\ calls[c].read = seed[KeyOfCall(c)]
          \/ \E w \in WritesTo(KeyOfCall(c)) : writes[w].response = calls[c].read
    /\ \A key \in DOMAIN storage :
          IF WritesTo(key) = {}
          THEN key \in DOMAIN seed /\ storage[key] = seed[key]
          ELSE storage[key] = writes[LastWriteTo(key)].response
    /\ \A w \in DOMAIN writes : writes[w].key \in DOMAIN storage

\* two overlapping calls for one entry that held a response have both
\* queried and finished, and they wrote different responses
C10_Witness ==
    \E a, b \in DOMAIN calls :
        /\ a < b
        /\ KeyOfCall(a) = KeyOfCall(b)
        /\ KeyOfCall(a) \in DOMAIN seed
        /\ a \notin calls[b].preceded_by
        /\ calls[a].state = "returned" /\ calls[a].queried
        /\ calls[b].state = "returned" /\ calls[b].queried
        /\ calls[a].response # calls[b].response

\* ------------------------- a second run of ask_multiple_stream on the storage
\* the remote service may answer one prompt with different payloads
RerunResponses == FreshResponses \cup { QueryResponse("fresh2", Null) }

\* the first run has returned all its Answers; the caller starts
\* ask_multiple_stream again with the same QuestionSet, overwrite left at
\* its default, on the storage the first run left behind
Rerun ==
    /\ entry = "ask_multiple_stream"
    /\ run = 1
    /\ pc = "done"
    /\ first' = [storage |-> storage, yielded |-> yielded, doc_hits |-> doc_hits,
                 tasks |-> tasks, report |-> report]
    /\ run' = 2
    /\ overwrite' = FALSE
    /\ pc' = "sweep"
    /\ idx' = 1
    /\ doc_hits' = <<>>
    /\ doc_misses' = <<>>
    /\ report' = None
    /\ semaphore' = 0
    /\ started' = 0
    /\ tasks' = <<>>
    /\ completed' = <<>>
    /\ yielded' = <<>>
    /\ reads' = <<>>
    /\ UNCHANGED <<entry, question_set, max_workers, storage, results, askvars,
                   llmvars, expvars, morevars>>

InitRerun ==
    /\ entry = "ask_multiple_stream"
    /\ question_set \in AskQuestionSets
    /\ overwrite \in BOOLEAN
    /\ max_workers \in 1..MaxWorkers
    /\ storage \in Storages(question_set)
    /\ pc = "sweep"
    /\ idx = 1
    /\ doc_hits = <<>>
    /\ doc_misses = <<>>
    /\ report = None
    /\ semaphore = 0
    /\ started = 0
    /\ tasks = <<>>
    /\ completed = <<>>
    /\ yielded = <<>>
    /\ results = <<>>
    /\ calls = <<>>
    /\ seed = <<>>
    /\ writes = <<>>
    /\ FirstRun
    /\ NoClient
    /\ NoExpansion
    /\ NoStore
    /\ NoSpray

NextRerun ==
    \/ Sweep
    \/ SweepComplete
    \/ YieldHit
    \/ Dispatch
    \/ StreamEnd
    \/ \E t \in DOMAIN tasks : Acquire(t)
    \/ \E t \in DOMAIN tasks : \E response \in RerunResponses : QueryReturns(t, response)
    \/ \E t \in DOMAIN tasks : QueryRaises(t)
    \/ \E t \in DOMAIN tasks : Save(t)
    \/ \E t \in DOMAIN tasks : SaveRaises(t)
    \/ YieldMiss
    \/ StreamRaises
    \/ Rerun

SpecRerun == InitRerun /\ [][NextRerun]_vars

\* the response question k was answered from in the first run: the cached
\* one of a hit, the fresh one of a miss
FirstResponse(k) ==
    IF \E h \in DOMAIN first.doc_hits : first.doc_hits[h].q = k
    THEN first.doc_hits[CHOOSE h \in DOMAIN first.doc_hits : first.doc_hits[h].q = k].response
    ELSE first.tasks[CHOOSE t \in DOMAIN first.tasks : first.tasks[t].q = k].response

FirstRunErrorFree == \A k \in DOMAIN questions : FirstResponse(k).error = Null

\* the questions whose entry after the first run is an error-free response
FirstUsable ==
    { k \in DOMAIN questions : CacheUsable(GetResponse(first.storage, questions[k])) }

\* the Answers of question k in both runs have the same fields
SameFields(a, b) == yielded[a].answer.fields = first.yielded[b].answer.fields

\* C11 as stated: after ask_multiple_stream has run to completion, an
\* immediate second run of the same QuestionSet on the same storage reports
\* N cached and 0 to query, issues no remote query, leaves the storage
\* unchanged and returns N Answers whose fields are those of the first run.
C11_SecondRunAllCached ==
    run = 2 =>
        /\ report # None =>
              /\ report.doc_hit_count = Len(questions)
              /\ report.doc_miss_count = 0
        /\ tasks = <<>>
        /\ storage = first.storage
        /\ pc = "done" =>
              /\ Len(yielded) = Len(questions)
              /\ \A a \in DOMAIN yielded : \A b \in DOMAIN first.yielded :
                    yielded[a].q = first.yielded[b].q => SameFields(a, b)

\* C11 amended: the second run reports as cached exactly the questions
\* whose stored response carries no error.  When every response of the
\* first run was error-free it reports N cached and 0 to query, issues no
\* query, leaves the storage unchanged and returns N Answers; the Answer of
\* a question has the fields of its first-run Answer whenever the response
\* stored under its question string is the one it got in the first run.
C11_SecondRunAmended ==
    run = 2 =>
        /\ report # None =>
              /\ report.doc_hit_count = Cardinality(FirstUsable)
              /\ report.doc_miss_count = Len(questions) - Cardinality(FirstUsable)
        /\ FirstRunErrorFree =>
              /\ report # None =>
                    /\ report.doc_hit_count = Len(questions)
                    /\ report.doc_miss_count = 0
              /\ tasks = <<>>
              /\ storage = first.storage
              /\ pc = "done" =>
                    /\ Len(yielded) = Len(questions)
                    /\ \A a \in DOMAIN yielded : \A b \in DOMAIN first.yielded :
                          (/\ yielded[a].q = first.yielded[b].q
                           /\ FirstResponse(yielded[a].q) =
                                 GetResponse(first.storage, questions[yielded[a].q]))
                              => SameFields(a, b)

\* the first run queried and stored error-free responses, and the second
\* run has returned an Answer for each question
C11_Witness ==
    /\ run = 2
    /\ pc = "done"
    /\ FirstRunErrorFree
    /\ first.tasks # <<>>
    /\ Len(yielded) = Len(questions)
    /\ Len(questions) > 1

\* ------------------------------------------ sweep, dispatch and assembly
\* a remote query of this run has started
QueryStarted == \E t \in DOMAIN tasks : tasks[t].state # "pending"

\* the hit count and the miss count are fixed and cover every question
CountsFixed ==
    /\ report # None
    /\ report.doc_hit_count = Len(doc_hits)
    /\ report.doc_miss_count = Len(doc_misses)
    /\ report.doc_hit_count + report.doc_miss_count = Len(questions)

AllOnce == [k \in DOMAIN questions |-> k]

\* C12 as stated: the sweep has read the storage for every expanded
\* question and fixed the hit count and the miss count before the first
\* remote query of the run starts, and the sweep itself issues no query.
C12_SweepReadsAllBeforeQuery ==
    /\ pc = "sweep" => (tasks = <<>> /\ started = 0)
    /\ QueryStarted => (CountsFixed /\ reads = AllOnce)

\* C12 amended: before the first remote query of the run starts the hit
\* count and the miss count are fixed; without overwrite the sweep has read
\* the storage once for every expanded question, with overwrite it has read
\* nothing; the sweep itself issues no query.
C12_SweepBeforeQueryAmended ==
    /\ pc = "sweep" => (tasks = <<>> /\ started = 0)
    /\ QueryStarted =>
          /\ CountsFixed
          /\ reads = IF overwrite THEN <<>> ELSE AllOnce

\* without overwrite a query has started after a sweep over two questions
\* that found a hit and a miss
C12_Witness ==
    /\ ~overwrite
    /\ QueryStarted
    /\ doc_hits # <<>>
    /\ Len(reads) > 1

\* the remote queries issued so far for question k: process_question calls
\* query once, when it gets the semaphore
QueriesFor(k) ==
    Cardinality({ t \in DOMAIN tasks : tasks[t].q = k /\ tasks[t].state # "pending" })

ResponseOf(a) ==
    IF yielded[a].source = "hit"
    THEN doc_hits[CHOOSE h \in DOMAIN doc_hits : doc_hits[h].q = yielded[a].q].response
    ELSE tasks[CHOOSE t \in DOMAIN tasks : tasks[t].q = yielded[a].q].response

\* C14: for every resolved response that carries an error the Answer built
\* from it has an empty fields mapping and a non-null error; for a response
\* without error the Answer has the extracted fields and a null error.
C14_ErrorAnswerShape ==
    \A a \in DOMAIN yielded :
        IF ResponseOf(a).error # Null
        THEN /\ yielded[a].answer.fields = {}
             /\ yielded[a].answer.error # Null
        ELSE /\ yielded[a].answer.fields = ExtractFields(ResponseOf(a).full_response)
             /\ yielded[a].answer.error = Null

\* the Answer of question k was a miss of the first run and is a hit of the
\* second run, built from the same response
ReplayOf(a, b) ==
    /\ yielded[a].source = "hit"
    /\ first.yielded[b].source = "miss"
    /\ yielded[a].q = first.yielded[b].q
    /\ ResponseOf(a) = FirstResponse(yielded[a].q)

\* C15: Answer assembly is the same for hits and misses: the Answer yielded
\* when a response is replayed from the cache equals, in word_set, question
\* value, raw payload, fields and error, the Answer yielded when that
\* response was freshly returned by the remote query for the same question.
C15_SameAssembly ==
    run = 2 =>
        \A a \in DOMAIN yielded : \A b \in DOMAIN first.yielded :
            ReplayOf(a, b) =>
                /\ yielded[a].answer.word_set = first.yielded[b].answer.word_set
                /\ yielded[a].answer.question_value = first.yielded[b].answer.question_value
                /\ yielded[a].answer.full_response = first.yielded[b].answer.full_response
                /\ yielded[a].answer.fields = first.yielded[b].answer.fields
                /\ yielded[a].answer.error = first.yielded[b].answer.error

\* a response queried in the first run has been replayed by the second run
C15_Witness ==
    /\ run = 2
    /\ \E a \in DOMAIN yielded : \E b \in DOMAIN first.yielded : ReplayOf(a, b)

\* ------------------------- query_sonar_structured (autora/llm.py)
\* What one attempt can end in: raise_for_status raises for an error status;
\* the POST times out; the body is empty or is not JSON; the decoded payload
\* has no choice to index; its content is empty, is not JSON or does not
\* validate against the response model; or the attempt succeeds.
Statuses == {400, 404, 500}

Outcomes ==
    { [kind |-> "http_status", status |-> st] : st \in Statuses }
    \cup { [kind |-> "timeout", status |-> 0] }
    \cup { [kind |-> k, status |-> 200] :
             k \in {"empty_body", "bad_body", "malformed", "empty_content",
                    "bad_json", "invalid", "ok"} }

\* the except clause an outcome lands in
CaughtNarrow(o) ==
    CASE o.kind = "ok" -> "none"
      [] o.kind = "http_status" -> "HTTPStatusError"
      [] o.kind \in {"empty_body", "bad_body", "empty_content", "bad_json", "invalid"}
            -> "ValueError"
      [] OTHER -> "uncaught"

\* httpx.TimeoutException and IndexError are neither HTTPStatusError nor
\* ValueError: "except Exception" takes them
Caught(o) ==
    CASE o.kind = "ok" -> "none"
      [] o.kind = "http_status" -> "HTTPStatusError"
      [] o.kind \in {"empty_body", "bad_body", "empty_content", "bad_json", "invalid"}
            -> "ValueError"
      [] OTHER -> "Exception"

\* response.json() has returned: lines 130-132 have run
Decoded(o) == o.kind \in {"malformed", "empty_content", "bad_json", "invalid", "ok"}

\* the payload decoded in the attempt numbered n
Payload(n, o) == [attempt |-> n, body |-> o.kind]

\* the text stored in result['parsing_error']
ParsingError(o) ==
    CASE Caught(o) = "HTTPStatusError" -> "HTTP status"
      [] Caught(o) = "ValueError" -> o.kind
      [] OTHER -> "Unexpected error"

\* the handler breaks out of the loop
GivesUp(o, n, retries) ==
    CASE Caught(o) = "HTTPStatusError" -> (o.status = 400 \/ n = retries - 1)
      [] Caught(o) = "ValueError" -> n = retries - 1
      [] OTHER -> TRUE

\* the result dict after the attempt numbered n ended in o
AfterAttempt(res, n, o) ==
    [raw_response |-> IF Decoded(o) THEN Payload(n, o) ELSE res.raw_response,
     retries_used |-> IF Decoded(o) THEN n ELSE res.retries_used,
     structured_data |-> IF o.kind = "ok" THEN [validated |-> Payload(n, o)]
                         ELSE res.structured_data,
     parsing_success |-> IF o.kind = "ok" THEN TRUE ELSE res.parsing_success,
     parsing_error |-> IF o.kind = "ok" THEN res.parsing_error ELSE ParsingError(o)]

\* one pass of "for attempt in range(max_retries)": the request and what
\* follows it, up to the break, the sleep of a handler or an exception that
\* no clause takes
Attempt(o) ==
    /\ entry = "query_sonar_structured"
    /\ llm_pc = "attempt"
    /\ attempt < max_retries
    /\ outcomes' = Append(outcomes, o)
    /\ IF Caught(o) = "uncaught"
       THEN /\ llm_pc' = "raised"
            /\ UNCHANGED result
       ELSE /\ result' = AfterAttempt(result, attempt, o)
            /\ llm_pc' = IF o.kind = "ok" \/ GivesUp(o, attempt, max_retries)
                         THEN "returned" ELSE "sleeping"
    /\ UNCHANGED <<args, morevars, runvars, reads, expvars, results, askvars, storage, pc,
                   idx, doc_hits, doc_misses, report, semaphore, started,
                   tasks, completed, yielded, max_retries, attempt>>

\* asyncio.sleep of the handler returns and the loop goes on
Backoff ==
    /\ entry = "query_sonar_structured"
    /\ llm_pc = "sleeping"
    /\ attempt' = attempt + 1
    /\ llm_pc' = "attempt"
    /\ UNCHANGED <<args, morevars, runvars, reads, expvars, results, askvars, storage, pc,
                   idx, doc_hits, doc_misses, report, semaphore, started,
                   tasks, completed, yielded, max_retries, result, outcomes>>

\* range(max_retries) is used up without a break: "return result"
LoopExhausted ==
    /\ entry = "query_sonar_structured"
    /\ llm_pc = "attempt"
    /\ attempt >= max_retries
    /\ llm_pc' = "returned"
    /\ UNCHANGED <<args, morevars, runvars, reads, expvars, results, askvars, storage, pc,
                   idx, doc_hits, doc_misses, report, semaphore, started,
                   tasks, completed, yielded, max_retries, attempt, result,
                   outcomes>>

\* the variables of the Workflow, unused by the client and by the expansion
NoWorkflow ==
    /\ overwrite = FALSE
    /\ max_workers = 1
    /\ storage = <<>>
    /\ pc = "start"
    /\ idx = 1
    /\ doc_hits = <<>>
    /\ doc_misses = <<>>
    /\ report = None
    /\ semaphore = 0
    /\ started = 0
    /\ tasks = <<>>
    /\ completed = <<>>
    /\ yielded = <<>>
    /\ results = <<>>
    /\ calls = <<>>
    /\ seed = <<>>
    /\ writes = <<>>
    /\ FirstRun

InitRetry ==
    /\ entry = "query_sonar_structured"
    /\ NoWorkflow
    /\ question_set = [template |-> <<>>, word_sets |-> <<>>]
    /\ NoExpansion
    /\ NoStore
    /\ NoSpray
    /\ max_retries \in 0..MaxRetries
    /\ attempt = 0
    /\ result = [raw_response |-> None, structured_data |-> None,
                 parsing_success |-> FALSE, parsing_error |-> Null,
                 retries_used |-> 0]
    /\ llm_pc = "attempt"
    /\ outcomes = <<>>

NextRetry ==
    \/ \E o \in Outcomes : Attempt(o)
    \/ Backoff
    \/ LoopExhausted

SpecRetry == InitRetry /\ [][NextRetry]_vars

Returned == llm_pc = "returned"

\* the outcomes the client handles as a parsing or validation failure
ParseFailures == {"empty_body", "bad_body", "empty_content", "bad_json", "invalid"}

AllFailed == \A i \in DOMAIN outcomes : outcomes[i].kind # "ok"

\* C16: a structured query whose every attempt fails parsing or validation
\* is attempted at most max_retries times, and the returned result has
\* retries_used = max_retries - 1 and parsing_success false.
C16_RetryCeiling ==
    (/\ Returned
     /\ outcomes # <<>>
     /\ \A i \in DOMAIN outcomes : outcomes[i].kind \in ParseFailures) =>
        /\ Len(outcomes) <= max_retries
        /\ result.retries_used = max_retries - 1
        /\ ~result.parsing_success

\* C17: a 4xx response is not retried: after an attempt that received a 4xx
\* status no further attempt is made, and the result is returned with
\* parsing_success false.
C17_ClientErrorNotRetried ==
    \A i \in DOMAIN outcomes :
        (outcomes[i].kind = "http_status" /\ outcomes[i].status \in 400..499) =>
            /\ i = Len(outcomes)
            /\ Returned => ~result.parsing_success

\* C18: a timeout is transient: when an attempt times out and fewer than
\* max_retries attempts have been made, another attempt is made, so the call
\* never returns right after it.
C18_TimeoutRetried ==
    \A i \in DOMAIN outcomes :
        (outcomes[i].kind = "timeout" /\ i < max_retries) =>
            (Returned => Len(outcomes) > i)

\* the payload decoded last, None when no attempt decoded one
LastPayload ==
    LET decoded == { i \in DOMAIN outcomes : Decoded(outcomes[i]) }
    IN  IF decoded = {} THEN None
        ELSE LET i == CHOOSE j \in decoded : \A k \in decoded : k <= j
             IN  Payload(i - 1, outcomes[i])

\* C19: when all attempts fail (max_retries >= 1), whatever the mix of
\* failure kinds, the call does not raise: it returns a result holding the
\* last payload decoded from a response (null if none), structured_data
\* null, parsing_success false and a non-null parsing_error.
C19_AllFailedResult ==
    /\ llm_pc # "raised"
    /\ (Returned /\ max_retries >= 1 /\ AllFailed) =>
          /\ result.raw_response = LastPayload
          /\ result.structured_data = None
          /\ ~result.parsing_success
          /\ result.parsing_error # Null

\* the call returned after failures of several kinds, the last one without
\* a payload, and the result holds the payload of an earlier attempt
C19_Witness ==
    /\ Returned
    /\ AllFailed
    /\ Len(outcomes) > 1
    /\ ~Decoded(outcomes[Len(outcomes)])
    /\ result.raw_response # None
    /\ \E i \in DOMAIN outcomes : outcomes[i].kind # outcomes[Len(outcomes)].kind

\* ------------------------- QuestionSet (researchq/classes.py)
RECURSIVE Prod(_)
Prod(ns) == IF ns = <<>> THEN 1 ELSE Head(ns) * Prod(Tail(ns))

\* the candidates of a parameter are counted without their repetitions
GetCountDistinct(qs) ==
    Prod([k \in DOMAIN qs.word_sets |->
             Cardinality({ qs.word_sets[k].values[i] : i \in DOMAIN qs.word_sets[k].values })])

\* QuestionSet.get_count: math.prod(len(v) for v in word_sets.values())
GetCount(qs) == Prod([k \in DOMAIN qs.word_sets |-> Len(qs.word_sets[k].values)])

ParamNames == <<"country", "topic">>

\* QuestionSets of no, one or two parameters, each with any candidate list
\* of at most MaxQ words: empty lists and repeated words included
ExpandQuestionSets ==
    { [template |-> <<Lit(<<"Does">>), Param("country")>>,
       word_sets |-> [k \in 1..n |-> [name |-> ParamNames[k], values |-> ls[k]]]] :
        n \in 0..Len(ParamNames), ls \in [1..Len(ParamNames) -> WordLists] }

GetCountCall ==
    /\ entry = "QuestionSet"
    /\ counted = <<>>
    /\ counted' = <<GetCount(question_set)>>
    /\ UNCHANGED <<args, morevars, runvars, reads, llmvars, results, askvars, storage, pc,
                   idx, doc_hits, doc_misses, report, semaphore, started,
                   tasks, completed, yielded, expanded>>

\* get_questions is called, at most twice on the same QuestionSet
GetQuestionsCall ==
    /\ entry = "QuestionSet"
    /\ Len(expanded) < 2
    /\ expanded' = Append(expanded, GetQuestions(question_set))
    /\ UNCHANGED <<args, morevars, runvars, reads, llmvars, results, askvars, storage, pc,
                   idx, doc_hits, doc_misses, report, semaphore, started,
                   tasks, completed, yielded, counted>>

InitExpand ==
    /\ entry = "QuestionSet"
    /\ question_set \in ExpandQuestionSets
    /\ NoWorkflow
    /\ NoClient
    /\ NoExpansion
    /\ NoStore
    /\ NoSpray

NextExpand ==
    \/ GetCountCall
    \/ GetQuestionsCall

SpecExpand == InitExpand /\ [][NextExpand]_vars

\* C20: for every QuestionSet, get_count() equals the number of Questions
\* produced by get_questions(), also when a candidate list is empty (both
\* are 0) or holds repeated values.
C20_CountMatchesExpansion ==
    (counted # <<>> /\ expanded # <<>>) =>
        /\ counted[1] = Len(expanded[1])
        /\ (\E k \in DOMAIN question_set.word_sets :
               question_set.word_sets[k].values = <<>>) => counted[1] = 0

\* both were called on a QuestionSet of two parameters, one of them with a
\* repeated candidate
C20_Witness ==
    /\ counted # <<>>
    /\ expanded # <<>>
    /\ Len(expanded[1]) > 2
    /\ \E k \in DOMAIN question_set.word_sets :
          LET v == question_set.word_sets[k].values
          IN  \E i, j \in DOMAIN v : i < j /\ v[i] = v[j]

\* ------------------------------------------------ order of the expansion
\* C21: get_questions produces the Questions in row-major order of the
\* cartesian product of the word lists taken in parameter insertion order,
\* the last parameter varying fastest, and a second call on the same
\* QuestionSet reproduces the same sequence in the same order.
C21_RowMajorRestartable ==
    LET ValuesOf(k) == question_set.word_sets[k].values
    IN
    \A c \in DOMAIN expanded :
        /\ expanded[c] = expanded[1]
        /\ \A k \in DOMAIN expanded[c] : expanded[c][k].template = question_set.template
        /\ Len(question_set.word_sets) = 0 =>
              (Len(expanded[c]) = 1 /\ DOMAIN expanded[c][1].word_set = {})
        /\ Len(question_set.word_sets) = 1 =>
              /\ Len(expanded[c]) = Len(ValuesOf(1))
              /\ \A a \in DOMAIN ValuesOf(1) :
                    expanded[c][a].word_set = [n \in {"country"} |-> ValuesOf(1)[a]]
        /\ Len(question_set.word_sets) = 2 =>
              /\ Len(expanded[c]) = Len(ValuesOf(1)) * Len(ValuesOf(2))
              /\ \A a \in DOMAIN ValuesOf(1) : \A b \in DOMAIN ValuesOf(2) :
                    expanded[c][(a - 1) * Len(ValuesOf(2)) + b].word_set =
                        [n \in {"country", "topic"} |->
                            IF n = "country" THEN ValuesOf(1)[a] ELSE ValuesOf(2)[b]]

\* a QuestionSet of two parameters with two different candidates each has
\* been expanded twice
C21_Witness ==
    /\ Len(expanded) = 2
    /\ Len(question_set.word_sets) = 2
    /\ \A k \in DOMAIN question_set.word_sets :
          /\ Len(question_set.word_sets[k].values) > 1
          /\ question_set.word_sets[k].values[1] # question_set.word_sets[k].values[2]

\* ------------------------------------- calls on a SessionStorageProvider
MaxOps == 3        \* number of calls made on one storage object

\* Questions built from different templates and word_sets.  The first three
\* render to the same string "xyz" ("x"+"yz", "xy"+"z", and a template that
\* spells "xy" itself), the fourth renders to "xz".
KeyQuestions ==
    { [template |-> <<Param("a"), Param("b")>>,
       word_set |-> [a |-> <<"x">>, b |-> <<"y", "z">>]],
      [template |-> <<Param("a"), Param("b")>>,
       word_set |-> [a |-> <<"x", "y">>, b |-> <<"z">>]],
      [template |-> <<Lit(<<"x", "y">>), Param("b")>>,
       word_set |-> [a |-> <<"x">>, b |-> <<"z">>]],
      [template |-> <<Param("a"), Param("b")>>,
       word_set |-> [a |-> <<"x">>, b |-> <<"z">>]] }

\* one call on the storage: the method, its arguments, the response or None
\* it returned and, for count, the number it returned
SessionOp(op, question, response, ret, n) ==
    [op |-> op, question |-> question, response |-> response, ret |-> ret, n |-> n]

\* The methods have no suspension point (the async ones never await), so a
\* call is one step.
SaveResponseCall ==
    /\ entry = "SessionStorageProvider"
    /\ Len(ops) < MaxOps
    /\ \E q \in KeyQuestions, r \in FreshResponses :
          /\ storage' = SaveResponse(storage, q, r)
          /\ ops' = Append(ops, SessionOp("save", q, r, None, 0))
    /\ UNCHANGED <<args, runvars, reads, llmvars, expvars, db, spray_args,
                   results, askvars, pc, idx, doc_hits, doc_misses, report,
                   semaphore, started, tasks, completed, yielded>>

GetResponseCall ==
    /\ entry = "SessionStorageProvider"
    /\ Len(ops) < MaxOps
    /\ \E q \in KeyQuestions :
          ops' = Append(ops, SessionOp("get", q, None, GetResponse(storage, q), 0))
    /\ UNCHANGED <<args, runvars, reads, llmvars, expvars, db, spray_args,
                   results, askvars, pc, idx, doc_hits, doc_misses, report,
                   semaphore, started, tasks, completed, yielded, storage>>

DeleteResponseCall ==
    /\ entry = "SessionStorageProvider"
    /\ Len(ops) < MaxOps
    /\ \E q \in KeyQuestions :
          /\ storage' = DeleteResponse(storage, q)
          /\ ops' = Append(ops, SessionOp("delete", q, None, None, 0))
    /\ UNCHANGED <<args, runvars, reads, llmvars, expvars, db, spray_args,
                   results, askvars, pc, idx, doc_hits, doc_misses, report,
                   semaphore, started, tasks, completed, yielded>>

ClearCall ==
    /\ entry = "SessionStorageProvider"
    /\ Len(ops) < MaxOps
    /\ storage' = Clear(storage)
    /\ ops' = Append(ops, SessionOp("clear", None, None, None, 0))
    /\ UNCHANGED <<args, runvars, reads, llmvars, expvars, db, spray_args,
                   results, askvars, pc, idx, doc_hits, doc_misses, report,
                   semaphore, started, tasks, completed, yielded>>

CountCall ==
    /\ entry = "SessionStorageProvider"
    /\ Len(ops) < MaxOps
    /\ ops' = Append(ops, SessionOp("count", None, None, None, Count(storage)))
    /\ UNCHANGED <<args, runvars, reads, llmvars, expvars, db, spray_args,
                   results, askvars, pc, idx, doc_hits, doc_misses, report,
                   semaphore, started, tasks, completed, yielded, storage>>

\* SessionStorageProvider(): an empty dict
InitSession ==
    /\ entry = "SessionStorageProvider"
    /\ question_set = [template |-> <<>>, word_sets |-> <<>>]
    /\ NoWorkflow
    /\ NoClient
    /\ NoExpansion
    /\ NoStore
    /\ NoSpray

NextSession ==
    \/ SaveResponseCall
    \/ GetResponseCall
    \/ DeleteResponseCall
    \/ ClearCall
    \/ CountCall

SpecSession == InitSession /\ [][NextSession]_vars

\* C22: cache keys are exactly as distinct as the substituted question
\* strings: Questions that render to the same string address the same
\* storage entry, whatever their templates and word_sets, and Questions that
\* render to different strings address different entries.
C22_KeysAsStrings ==
    /\ \A q1, q2 \in KeyQuestions :
          Value(q1) = Value(q2) => GetResponse(storage, q1) = GetResponse(storage, q2)
    /\ Count(storage) =
          Cardinality({ Value(q) : q \in { x \in KeyQuestions : GetResponse(storage, x) # None } })
    /\ \A i \in DOMAIN ops : \A q \in KeyQuestions :
          (i = Len(ops) /\ ops[i].op = "save" /\ Value(q) = Value(ops[i].question)) =>
              GetResponse(storage, q) = ops[i].response

\* a response saved under one Question is read through a Question with
\* another template and another word_set that renders to the same string,
\* while a Question rendering to another string holds a different response
C22_Witness ==
    \E q1, q2, q4 \in KeyQuestions :
        /\ Len(ops) = 3
        /\ ops[1].op = "save" /\ ops[1].question = q1
        /\ ops[2].op = "save" /\ ops[2].question = q4
        /\ ops[3].op = "get" /\ ops[3].question = q2
        /\ q1.template # q2.template
        /\ q1.word_set # q2.word_set
        /\ Value(q1) = Value(q2)
        /\ Value(q4) # Value(q1)
        /\ ops[1].response # ops[2].response
        /\ ops[3].ret = ops[1].response
        /\ GetResponse(storage, q4) = ops[2].response

\* C23: under any sequence of save_response, get_response, delete_response
\* and clear the storage behaves as a map from the question key to the
\* latest saved response: get_response returns the most recent save on the
\* key not followed by a delete of it or a clear, and is absent otherwise;
\* a save on a key already present replaces the entry and leaves count()
\* unchanged; count() is the number of distinct keys present.
C23_BehavesAsMap ==
    LET \* the last call among the first i that saved, deleted or cleared the key
        LastTouch(i, key) ==
            LET s == { j \in 1..i : \/ ops[j].op = "clear"
                                    \/ /\ ops[j].op \in {"save", "delete"}
                                       /\ Value(ops[j].question) = key }
            IN  IF s = {} THEN 0 ELSE CHOOSE j \in s : \A k \in s : k <= j
        \* what a map holds for the key after the first i calls
        Latest(i, key) ==
            IF LastTouch(i, key) # 0 /\ ops[LastTouch(i, key)].op = "save"
            THEN ops[LastTouch(i, key)].response
            ELSE None
        Present(i) == { k \in { Value(q) : q \in KeyQuestions } : Latest(i, k) # None }
    IN
    /\ \A i \in DOMAIN ops :
          /\ ops[i].op = "get" => ops[i].ret = Latest(i - 1, Value(ops[i].question))
          /\ ops[i].op = "count" => ops[i].n = Cardinality(Present(i - 1))
          /\ (ops[i].op = "save" /\ Latest(i - 1, Value(ops[i].question)) # None) =>
                Cardinality(Present(i)) = Cardinality(Present(i - 1))
    /\ Count(storage) = Cardinality(Present(Len(ops)))
    /\ \A q \in KeyQuestions : GetResponse(storage, q) = Latest(Len(ops), Value(q))

\* a key is saved, deleted and read again
C23_Witness ==
    /\ Len(ops) = 3
    /\ ops[1].op = "save"
    /\ ops[2].op = "delete"
    /\ Value(ops[2].question) = Value(ops[1].question)
    /\ ops[3].op = "get"
    /\ Value(ops[3].question) = Value(ops[1].question)
    /\ ops[3].ret = None
    /\ Count(storage) = 0

\* ------------------------------------- InMemoryStorage and SQLiteStorage
MaxStoreOps == 4   \* number of calls made on the two storages side by side

\* Result dicts are functions from key to value.  The first is the row of
\* test_concurrent_access (a parameter at top level only), the second has
\* the shape process_single_query builds (the parameter also in word_dict).
StoreRows ==
    { [query_id |-> "1", country |-> "USA"],
      [query_id |-> "2", country |-> "USA", word_dict |-> [country |-> "USA"]] }

\* one call made on both storages: the method, the dict stored, and what
\* the InMemoryStorage and the SQLiteStorage returned
StoreOp(op, row, created_at, memory, sqlite) ==
    [op |-> op, row |-> row, created_at |-> created_at,
     memory |-> memory, sqlite |-> sqlite]

\* CURRENT_TIMESTAMP has a resolution of one second: an insert happens in
\* the second of the previous one or in the next
LastCreated ==
    IF ops = <<>> THEN 0
    ELSE CHOOSE t \in { ops[i].created_at : i \in DOMAIN ops } :
            \A i \in DOMAIN ops : ops[i].created_at <= t

Stores(i) == { j \in 1..i : ops[j].op = "store" }

\* the list is replaced by one holding the new dict only
StoreOverwrite(rs, row) == <<AddTimestamp(row)>>

\* InMemoryStorage.store_query_result, under the lock:
\* self._results.append(query_result.copy())
StoreCopy(rs, row) == Append(rs, AddTimestamp(row))

\* The caller awaits each call before it makes the next one, first on the
\* InMemoryStorage, then on a SQLiteStorage created on a fresh file.
StoreQueryResult ==
    /\ entry = "QueryStorage"
    /\ Len(ops) < MaxStoreOps
    /\ \E row \in StoreRows, t \in {LastCreated, LastCreated + 1} :
          /\ results' = StoreCopy(results, row)
          /\ db' = StoreResultSync(db, row, Cardinality(Stores(Len(ops))) + 1, t)
          /\ ops' = Append(ops, StoreOp("store", row, t, None, None))
    /\ UNCHANGED <<args, runvars, reads, llmvars, expvars, spray_args, storage,
                   askvars, pc, idx, doc_hits, doc_misses, report, semaphore,
                   started, tasks, completed, yielded>>

RetrieveQueryResults ==
    /\ entry = "QueryStorage"
    /\ Len(ops) < MaxStoreOps
    /\ \E p \in Orders(db) :
          ops' = Append(ops, StoreOp("retrieve", None, LastCreated, results,
                                     RetrieveResultsSync(db, p)))
    /\ UNCHANGED <<args, runvars, reads, llmvars, expvars, spray_args, storage,
                   askvars, pc, idx, doc_hits, doc_misses, report, semaphore,
                   started, tasks, completed, yielded, results, db>>

ClearAllResults ==
    /\ entry = "QueryStorage"
    /\ Len(ops) < MaxStoreOps
    /\ results' = <<>>
    /\ db' = DeleteAll(db)
    /\ ops' = Append(ops, StoreOp("clear", None, LastCreated, None, None))
    /\ UNCHANGED <<args, runvars, reads, llmvars, expvars, spray_args, storage,
                   askvars, pc, idx, doc_hits, doc_misses, report, semaphore,
                   started, tasks, completed, yielded>>

\* InMemoryStorage: len(retrieve_query_results()); SQLite: SELECT COUNT(*)
GetResultCount ==
    /\ entry = "QueryStorage"
    /\ Len(ops) < MaxStoreOps
    /\ ops' = Append(ops, StoreOp("count", None, LastCreated, Len(results), Len(db)))
    /\ UNCHANGED <<args, runvars, reads, llmvars, expvars, spray_args, storage,
                   askvars, pc, idx, doc_hits, doc_misses, report, semaphore,
                   started, tasks, completed, yielded, results, db>>

InitStore ==
    /\ entry = "QueryStorage"
    /\ question_set = [template |-> <<>>, word_sets |-> <<>>]
    /\ NoWorkflow
    /\ NoClient
    /\ NoExpansion
    /\ NoStore
    /\ NoSpray

NextStore ==
    \/ StoreQueryResult
    \/ RetrieveQueryResults
    \/ ClearAllResults
    \/ GetResultCount

SpecStore == InitStore /\ [][NextStore]_vars

\* C24: for every sequence of store, clear, count and retrieve calls the
\* InMemoryStorage and a SQLiteStorage on a fresh database behave alike:
\* each count returns the same number and each retrieve returns the same
\* stored results (every key of a stored dict, in the same order of rows).
C24_SameBehaviour ==
    \A i \in DOMAIN ops :
        /\ ops[i].op = "count" => ops[i].memory = ops[i].sqlite
        /\ ops[i].op = "retrieve" =>
              /\ Len(ops[i].memory) = Len(ops[i].sqlite)
              /\ \A k \in DOMAIN ops[i].memory : \A key \in DOMAIN ops[i].memory[k] :
                    /\ key \in DOMAIN ops[i].sqlite[k]
                    /\ ops[i].sqlite[k][key] = ops[i].memory[k][key]

\* C27: for both storages get_result_count() without filters is the number
\* of store_query_result calls completed since the last clear_all_results
\* (or since creation), and right after clear_all_results the count is 0
\* and retrieve_query_results returns the empty list.
C27_CountIsStoresSinceClear ==
    LET \* the last clear among the first i calls, 0 if there is none
        LastClear(i) ==
            IF \E j \in 1..i : ops[j].op = "clear"
            THEN CHOOSE j \in 1..i :
                    ops[j].op = "clear" /\ \A k \in (j + 1)..i : ops[k].op # "clear"
            ELSE 0
    IN
    \A i \in DOMAIN ops :
        /\ ops[i].op = "count" =>
              /\ ops[i].memory = Cardinality(Stores(i) \ 1..LastClear(i))
              /\ ops[i].sqlite = Cardinality(Stores(i) \ 1..LastClear(i))
        /\ (ops[i].op = "retrieve" /\ LastClear(i) = i - 1 /\ i > 1) =>
              ops[i].memory = <<>> /\ ops[i].sqlite = <<>>
        /\ ops[i].op = "retrieve" =>
              /\ Len(ops[i].memory) = Cardinality(Stores(i) \ 1..LastClear(i))
              /\ Len(ops[i].sqlite) = Cardinality(Stores(i) \ 1..LastClear(i))

\* a store, a clear, another store, and then the count is 1 on both
C27_Witness ==
    /\ Len(ops) = 4
    /\ ops[1].op = "store"
    /\ ops[2].op = "clear"
    /\ ops[3].op = "store"
    /\ ops[4].op = "count"
    /\ ops[4].memory = 1
    /\ ops[4].sqlite = 1

\* ------------------------------------------- concurrent calls on storages
MaxTasks == 3      \* number of storage calls started, possibly overlapping

\* one InMemoryStorage and two SQLiteStorage instances on the same db_path
Targets == {"memory", "sqlite1", "sqlite2"}

\* the calls that have returned
ReturnedCalls == { i \in DOMAIN ops : ops[i].state = "returned" }

\* the dict stored by call number i: as in test_concurrent_access every call
\* stores a dict with a query_id of its own
RowOf(i) == [query_id |-> i, country |-> "USA"]

\* A coroutine calls store_query_result or retrieve_query_results on one of
\* the storages, while earlier calls may still be under way (asyncio.gather,
\* or a caller that awaited them first).
Call ==
    /\ entry = "gather"
    /\ Len(ops) < MaxTasks
    /\ \E target \in Targets, op \in {"store", "retrieve"} :
          ops' = Append(ops, [target |-> target, op |-> op, row |-> RowOf(Len(ops) + 1),
                              state |-> "pending", after |-> ReturnedCalls,
                              ret |-> <<>>])
    /\ UNCHANGED <<args, runvars, reads, llmvars, expvars, spray_args, storage,
                   askvars, pc, idx, doc_hits, doc_misses, report, semaphore,
                   started, tasks, completed, yielded, results, db>>

\* InMemoryStorage: the lock is free whenever a call gets to run, and the
\* body under the lock has no suspension point, so the call runs to its
\* return in one step.
RunInMemory ==
    /\ entry = "gather"
    /\ \E i \in DOMAIN ops :
          /\ ops[i].target = "memory"
          /\ ops[i].state = "pending"
          /\ results' = IF ops[i].op = "store" THEN StoreCopy(results, ops[i].row)
                        ELSE results
          /\ ops' = [ops EXCEPT ![i].state = "returned",
                                ![i].ret = IF ops[i].op = "retrieve" THEN results ELSE <<>>]
    /\ UNCHANGED <<args, runvars, reads, llmvars, expvars, spray_args, storage,
                   askvars, pc, idx, doc_hits, doc_misses, report, semaphore,
                   started, tasks, completed, yielded, db>>

\* SQLiteStorage: "async with self._lock" of the instance, then the helper
\* runs in the executor: one transaction on the database file.  The rows
\* are created one second apart, so that SELECT returns them newest first.
RunInExecutor ==
    /\ entry = "gather"
    /\ \E i \in DOMAIN ops :
          /\ ops[i].target # "memory"
          /\ ops[i].state = "pending"
          /\ \A j \in DOMAIN ops : ops[j].target = ops[i].target => ops[j].state # "done"
          /\ db' = IF ops[i].op = "store"
                   THEN StoreResultSync(db, ops[i].row, Len(db) + 1, Len(db) + 1)
                   ELSE db
          /\ \E p \in Orders(db) :
                ops' = [ops EXCEPT ![i].state = "done",
                                   ![i].ret = IF ops[i].op = "retrieve"
                                              THEN RetrieveResultsSync(db, p) ELSE <<>>]
    /\ UNCHANGED <<args, runvars, reads, llmvars, expvars, spray_args, storage,
                   askvars, pc, idx, doc_hits, doc_misses, report, semaphore,
                   started, tasks, completed, yielded, results>>

\* the executor future resolves, the lock is released, the call returns
ExecutorReturns ==
    /\ entry = "gather"
    /\ \E i \in DOMAIN ops :
          /\ ops[i].state = "done"
          /\ ops' = [ops EXCEPT ![i].state = "returned"]
    /\ UNCHANGED <<args, runvars, reads, llmvars, expvars, spray_args, storage,
                   askvars, pc, idx, doc_hits, doc_misses, report, semaphore,
                   started, tasks, completed, yielded, results, db>>

InitGather ==
    /\ entry = "gather"
    /\ question_set = [template |-> <<>>, word_sets |-> <<>>]
    /\ NoWorkflow
    /\ NoClient
    /\ NoExpansion
    /\ NoStore
    /\ NoSpray

NextGather ==
    \/ Call
    \/ RunInMemory
    \/ RunInExecutor
    \/ ExecutorReturns

SpecGather == InitGather /\ [][NextGather]_vars

\* C25: once store_query_result on one SQLiteStorage instance has returned,
\* a retrieve_query_results made afterwards on any other SQLiteStorage
\* instance opened on the same database path observes the stored result.
C25_VisibleAcrossInstances ==
    \A j \in DOMAIN ops :
        (ops[j].op = "retrieve" /\ ops[j].target # "memory" /\ ops[j].state # "pending") =>
            \A i \in ops[j].after :
                (ops[i].op = "store" /\ ops[i].target \notin {"memory", ops[j].target}) =>
                    \E k \in DOMAIN ops[j].ret :
                        \A key \in DOMAIN ops[i].row \cap Columns :
                            ops[j].ret[k][key] = ops[i].row[key]

\* a store on one instance has returned, then the other instance retrieves
C25_Witness ==
    \E i, j \in DOMAIN ops :
        /\ ops[i].op = "store" /\ ops[i].target = "sqlite1"
        /\ ops[j].op = "retrieve" /\ ops[j].target = "sqlite2"
        /\ i \in ops[j].after
        /\ ops[j].state = "returned"
        /\ Len(ops[j].ret) = 1

\* C26: N store_query_result calls made concurrently on one InMemoryStorage
\* all take effect: a retrieve made after they returned gives exactly N
\* results, one per call, none lost and none duplicated, whatever the
\* interleaving.
C26_NoLostStore ==
    LET \* how many dicts of the list are the one stored by call number i
        Occurrences(list, i) ==
            Cardinality({ k \in DOMAIN list :
                \A key \in DOMAIN ops[i].row :
                    key \in DOMAIN list[k] /\ list[k][key] = ops[i].row[key] })
    IN
    /\ \A i \in DOMAIN ops :
          (ops[i].op = "store" /\ ops[i].target = "memory") =>
              Occurrences(results, i) = IF ops[i].state = "returned" THEN 1 ELSE 0
    /\ \A j \in DOMAIN ops :
          (ops[j].op = "retrieve" /\ ops[j].target = "memory" /\ ops[j].state = "returned"
              /\ \A i \in DOMAIN ops :
                    (ops[i].op = "store" /\ ops[i].target = "memory") => i \in ops[j].after) =>
              /\ Len(ops[j].ret) =
                    Cardinality({ i \in ops[j].after : ops[i].target = "memory" /\ ops[i].op = "store" })
              /\ \A i \in ops[j].after :
                    (ops[i].op = "store" /\ ops[i].target = "memory") =>
                        Occurrences(ops[j].ret, i) = 1

\* two stores were started before either had returned, and a retrieve made
\* after both returned gives two results
C26_Witness ==
    /\ Len(ops) = 3
    /\ \A i \in {1, 2} :
          ops[i].op = "store" /\ ops[i].target = "memory" /\ ops[i].after = {}
    /\ ops[3].op = "retrieve" /\ ops[3].target = "memory"
    /\ ops[3].after = {1, 2}
    /\ ops[3].state = "returned"
    /\ Len(ops[3].ret) = 2

\* ----------------------------------------------------- spray on its own
\* the storage arguments tried: the default, two known storage types, an
\* InMemoryStorage instance, an unknown type string and a number
StorageArgs == {"None", "memory", "sqlite", "QueryStorage", "redis", "123"}

\* one or two research questions; the second template names a parameter
\* that the word sets do not have
ResearchQuestionLists ==
    LET ts == { <<Lit(<<"Does">>), Param("country")>>, <<Lit(<<"Does">>), Param("topic")>> }
    IN  UNION { [1..n -> ts] : n \in 1..2 }

InitSpray ==
    /\ entry = "spray"
    /\ question_set \in AskQuestionSets
    /\ max_workers \in 1..MaxWorkers
    /\ overwrite = FALSE
    /\ storage = <<>>
    /\ pc = "start"
    /\ idx = 1
    /\ doc_hits = <<>>
    /\ doc_misses = <<>>
    /\ report = None
    /\ semaphore = 0
    /\ started = 0
    /\ tasks = <<>>
    /\ completed = <<>>
    /\ yielded = <<>>
    /\ results = <<>>
    /\ calls = <<>>
    /\ seed = <<>>
    /\ writes = <<>>
    /\ FirstRun
    /\ NoClient
    /\ NoExpansion
    /\ NoStore
    /\ spray_args \in [storage : StorageArgs, max_queries : {<<>>},
                        research_questions : ResearchQuestionLists]

NextSpray ==
    \/ SprayStart
    \/ \E t \in DOMAIN tasks : SprayAcquire(t)
    \/ \E t \in DOMAIN tasks : SprayFormatRaises(t)
    \/ \E t \in DOMAIN tasks : \E payload \in SprayPayloads : SprayQueryEnds(t, payload)
    \/ \E t \in DOMAIN tasks : SprayStore(t)
    \/ \E t \in DOMAIN tasks : SprayWake(t)
    \/ SprayReturn

SpecSpray == InitSpray /\ [][NextSpray]_vars

\* C28: spray called with a storage argument that is neither None, a string
\* nor a QueryStorage, or with an unknown storage-type string, raises
\* ValueError before any remote query is issued and before anything is
\* stored.
C28_InvalidStorageRaisesFirst ==
    spray_args.storage \in {"redis", "123"} =>
        /\ pc \in {"start", "raised"}
        /\ tasks = <<>>
        /\ results = <<>>
        /\ db = <<>>

\* spray has raised on the unknown storage-type string
C28_Witness ==
    /\ spray_args.storage = "redis"
    /\ pc = "raised"

\* C29: a template that names a parameter absent from the word sets fails
\* fast: the error is raised when the question is expanded, before any
\* remote query of the batch has been issued and before anything is stored,
\* and the placeholder is never left unsubstituted or replaced by nothing.
C29_FailFast ==
    (\E t \in DOMAIN AllTasks : ~Formattable(AllTasks[t])) =>
        /\ \A t \in DOMAIN tasks : tasks[t].state \in {"pending", "failed"}
        /\ results = <<>>
        /\ db = <<>>

\* C30: when the remote query of a task raises inside process_single_query
\* the error does not propagate: a row recording the error in
\* sonar_response is stored, and spray goes on to process the remaining
\* tasks (only a template that cannot be formatted makes spray raise).
C30_QueryErrorBecomesRow ==
    LET rows == IF spray_args.storage = "sqlite"
                THEN [k \in DOMAIN db |-> db[k].columns]
                ELSE results
        RowsOf(t) == { k \in DOMAIN rows : rows[k]["query_id"] = t }
    IN  /\ \A t \in DOMAIN tasks :
              /\ tasks[t].state = "failed" => ~Formattable(AllTasks[t])
              /\ (tasks[t].state \in {"sleeping", "finished"} /\ tasks[t].response = "error") =>
                    /\ Cardinality(RowsOf(t)) = 1
                    /\ \A k \in RowsOf(t) : rows[k]["sonar_response"] = "Error: error"
        /\ (pc = "raised" /\ spray_args.storage \notin {"redis", "123"}) =>
              \E t \in DOMAIN tasks : tasks[t].state = "failed"
        /\ pc = "done" =>
              \A t \in DOMAIN AllTasks :
                  tasks[t].state = "finished" /\ Cardinality(RowsOf(t)) = 1

\* the query of the first task raised, its error row is stored, and spray
\* has gone on to finish the other tasks and returned
C30_Witness ==
    /\ pc = "done"
    /\ Len(tasks) > 1
    /\ tasks[1].response = "error"
    /\ \E k \in DOMAIN results :
          results[k]["query_id"] = 1 /\ results[k]["sonar_response"] = "Error: error"
    /\ \E k \in DOMAIN results :
          results[k]["query_id"] = Len(tasks) /\ results[k]["sonar_response"] = "content"

\* --------------------------- the result of query_sonar_structured again
\* C38: whenever query_sonar_structured returns parsing_success true,
\* structured_data is non-null and parsing_error is null, also when the
\* success came on a later attempt after earlier attempts had failed.
C38_SuccessIsClean ==
    (Returned /\ result.parsing_success) =>
        /\ result.structured_data # None
        /\ result.parsing_error = Null

\* C39: for every outcome of query_sonar_structured with max_retries >= 1
\* (success, exhausted retries, non-retried failure) the returned
\* retries_used is the number of attempts made minus one, whatever kind of
\* failure each earlier attempt had.
C39_RetriesUsedCountsAttempts ==
    (Returned /\ max_retries >= 1) => result.retries_used = Len(outcomes) - 1

\* ------------------------------- spray: the table returned (sprayer.py)
MaxCap == 5

\* the row a call of spray made earlier on the same storage has left there
EarlierRow ==
    [query_id |-> 1,
     research_question |-> Value(questions[1]),
     sonar_response |-> "content",
     sonar_response_json |-> [payload |-> "fresh"],
     question_template |-> question_set.template,
     word_dict |-> questions[1].word_set,
     timestamp |-> "earlier"] @@ questions[1].word_set

\* spray(research_questions, word_sets, max_queries, max_concurrent, storage)
\* with templates that format: storage None or a type string makes a new
\* InMemoryStorage or opens the SQLite file (empty or holding the earlier
\* row); a QueryStorage instance is taken as it is, empty or used before
InitSprayRun ==
    /\ entry = "spray"
    /\ question_set \in { qs \in AskQuestionSets : qs.template = <<Lit(<<"Does">>), Param("country")>> }
    /\ max_workers \in 1..MaxWorkers
    /\ spray_args \in [storage : {"None", "memory", "sqlite", "QueryStorage"},
                        max_queries : {<<>>} \cup { <<n>> : n \in {0, 1, 3, MaxCap} },
                        research_questions :
                            { <<<<Lit(<<"Does">>), Param("country")>>>>,
                              << <<Lit(<<"Does">>), Param("country")>>,
                                 <<Lit(<<"Is">>), Param("country")>> >> }]
    /\ seed \in IF spray_args.storage \in {"sqlite", "QueryStorage"}
                THEN {<<>>, <<EarlierRow>>} ELSE {<<>>}
    /\ results = IF spray_args.storage = "QueryStorage" THEN seed ELSE <<>>
    /\ db = IF spray_args.storage = "sqlite" /\ seed # <<>>
            THEN StoreResultSync(<<>>, EarlierRow, 1, 0) ELSE <<>>
    /\ ops = <<>>
    /\ overwrite = FALSE
    /\ storage = <<>>
    /\ pc = "start"
    /\ idx = 1
    /\ doc_hits = <<>>
    /\ doc_misses = <<>>
    /\ report = None
    /\ semaphore = 0
    /\ started = 0
    /\ tasks = <<>>
    /\ completed = <<>>
    /\ yielded = <<>>
    /\ calls = <<>>
    /\ writes = <<>>
    /\ FirstRun
    /\ NoClient
    /\ NoExpansion

\* every template formats, so no task raises
NextSprayRun ==
    \/ SprayStart
    \/ \E t \in DOMAIN tasks : SprayAcquire(t)
    \/ \E t \in DOMAIN tasks : \E payload \in SprayPayloads : SprayQueryEnds(t, payload)
    \/ \E t \in DOMAIN tasks : SprayStore(t)
    \/ \E t \in DOMAIN tasks : SprayWake(t)
    \/ SprayReturn

SpecSprayRun == InitSprayRun /\ [][NextSprayRun]_vars

\* C31: the table spray returns has exactly one row per query task that
\* this call processed, whatever the storage argument is (None, a storage
\* type string or a QueryStorage instance).
C31_OneRowPerTask ==
    (entry = "spray" /\ pc = "done") =>
        /\ Len(yielded) = Len(tasks)
        /\ \A t \in DOMAIN tasks :
              Cardinality({ k \in DOMAIN yielded : yielded[k].query_id = t }) = 1

\* C32: with max_queries given spray processes exactly
\* min(max_queries, combinations * templates) tasks, and they are the first
\* ones in row-major order (word combination outer, template inner); with
\* no cap it processes all of them.
C32_CapTakesRowMajorPrefix ==
    LET nT == Len(spray_args.research_questions)
        total == Len(questions) * nT
        expected == IF spray_args.max_queries = <<>> THEN total
                    ELSE IF spray_args.max_queries[1] < total
                         THEN spray_args.max_queries[1] ELSE total
        stored == IF spray_args.storage = "sqlite"
                  THEN [k \in 1..(Len(db) - Len(seed)) |-> ResultDict(db[Len(seed) + k])]
                  ELSE SubSeq(results, Len(seed) + 1, Len(results))
    IN  (entry = "spray" /\ pc = "done") =>
            /\ Len(tasks) = expected
            /\ Len(stored) = expected
            /\ \A t \in 1..expected :
                  \E k \in DOMAIN stored :
                      /\ stored[k].query_id = t
                      /\ stored[k].word_dict = questions[((t - 1) \div nT) + 1].word_set
                      /\ stored[k].question_template =
                            spray_args.research_questions[((t - 1) % nT) + 1]

\* a capped call has returned after cutting inside a word combination
C32_Witness ==
    /\ entry = "spray" /\ pc = "done"
    /\ spray_args.max_queries = <<3>>
    /\ Len(spray_args.research_questions) = 2
    /\ Len(tasks) = 3

\* ------------------- process_single_query: the row of a raw payload
\* response_json[key] of a required section: KeyError when it is absent
\* (<<>> stands for the exception, <<v>> for the value v)
SectionRequired(response_json, key, default) ==
    IF key \in DOMAIN response_json THEN <<response_json[key]>> ELSE <<>>

\* response_json.get(key, default)
Section(response_json, key, default) ==
    <<IF key \in DOMAIN response_json THEN response_json[key] ELSE default>>

\* .get('choices', [{}])[0].get('message', {}).get('content', default):
\* [0] of an empty list raises IndexError
ContentOf(response_json, default) ==
    LET choices == Section(response_json, "choices", << <<>> >>)
    IN  IF Len(choices) = 0 \/ Len(choices[1]) = 0 THEN <<>>
        ELSE IF "message" \notin DOMAIN choices[1][1] THEN <<default>>
        ELSE IF "content" \notin DOMAIN choices[1][1].message THEN <<default>>
        ELSE <<choices[1][1].message.content>>

\* one enriched citation per citation URL; search_lookup maps a URL to the
\* last search result that has it (.get('url', '') for a result without)
EnrichedCitations(response_json) ==
    LET citations == Section(response_json, "citations", <<>>)
        search_results == Section(response_json, "search_results", <<>>)
        UrlOf(r) == IF "url" \in DOMAIN r THEN r.url ELSE ""
        Field(r, f) == IF f \in DOMAIN r THEN r[f] ELSE Null
    IN  IF Len(citations) = 0 \/ Len(search_results) = 0 THEN <<>>
        ELSE << [i \in DOMAIN citations[1] |->
                  LET hits == { j \in DOMAIN search_results[1] :
                                  UrlOf(search_results[1][j]) = citations[1][i] }
                  IN  IF hits = {}
                      THEN [url |-> citations[1][i], title |-> Null, snippet |-> Null,
                            matched |-> FALSE]
                      ELSE LET j == CHOOSE j \in hits : \A k \in hits : k <= j
                           IN  [url |-> citations[1][i],
                                title |-> Field(search_results[1][j], "title"),
                                snippet |-> Field(search_results[1][j], "snippet"),
                                matched |-> TRUE]] >>

\* raw payloads: every optional section absent, empty or filled
RawPayloads ==
    LET base == [id |-> "r"]
        choices == { << >>,
                     << [index |-> 0] >>,
                     << [index |-> 0, message |-> [role |-> "assistant"]] >>,
                     << [index |-> 0, message |-> [role |-> "assistant", content |-> "text"]] >> }
        citations == { << >>, <<"u1">>, <<"u1", "u2">> }
        searches == { << >>,
                      << [url |-> "u1", title |-> "t1"] >>,
                      << [title |-> "t0"], [url |-> "u2", title |-> "t2", snippet |-> "s2"] >>,
                      << [url |-> "u1", title |-> "t1"], [url |-> "u1", snippet |-> "s1"] >> }
    IN  { base @@ c @@ ci @@ sr :
            c \in {base} \cup { [choices |-> x] : x \in choices },
            ci \in {base} \cup { [citations |-> x] : x \in citations },
            sr \in {base} \cup { [search_results |-> x] : x \in searches } }

\* query_sonar has returned the payload to process_single_query
InitRow ==
    /\ entry = "process_single_query"
    /\ question_set = [template |-> <<>>, word_sets |-> <<>>]
    /\ tasks \in { <<[q |-> 1, state |-> "queried", payload |-> p, response |-> p,
                        content |-> Null]>> : p \in RawPayloads }
    /\ overwrite = FALSE
    /\ max_workers = 1
    /\ storage = <<>>
    /\ pc = "running"
    /\ idx = 1
    /\ doc_hits = <<>>
    /\ doc_misses = <<>>
    /\ report = None
    /\ semaphore = 0
    /\ started = 0
    /\ completed = <<>>
    /\ yielded = <<>>
    /\ results = <<>>
    /\ calls = <<>>
    /\ seed = <<>>
    /\ writes = <<>>
    /\ FirstRun
    /\ NoClient
    /\ NoExpansion
    /\ NoStore
    /\ NoSpray

\* the rest of the try block: response_content is read from the payload;
\* an exception is caught and replaces the payload by the error dict
RowContent ==
    /\ entry = "process_single_query"
    /\ pc = "running"
    /\ tasks[1].state = "queried"
    /\ tasks' = IF Len(ContentOf(tasks[1].response, "No response")) = 0
                THEN <<[tasks[1] EXCEPT !.state = "assembling",
                          !.response = [error |-> "e", traceback |-> "tb"],
                          !.content = "Error: e"]>>
                ELSE <<[tasks[1] EXCEPT !.state = "assembling",
                          !.content = ContentOf(tasks[1].response, "No response")[1]]>>
    /\ UNCHANGED <<args, othervars, results, askvars, storage, pc, idx, doc_hits,
                   doc_misses, report, semaphore, started, completed, yielded>>

\* enriched_citations and row_data are built outside the try block: an
\* exception here leaves process_single_query
RowAssemble ==
    /\ entry = "process_single_query"
    /\ pc = "running"
    /\ tasks[1].state = "assembling"
    /\ LET response_json == tasks[1].response
           row == [sonar_response |-> <<tasks[1].content>>,
                   search_results |-> Section(response_json, "search_results", <<>>),
                   citations |-> Section(response_json, "citations", <<>>),
                   enriched_citations |-> EnrichedCitations(response_json),
                   content |-> ContentOf(response_json, "")]
       IN  IF \E f \in DOMAIN row : Len(row[f]) = 0
           THEN /\ pc' = "raised"
                /\ UNCHANGED results
           ELSE /\ pc' = "done"
                /\ results' = <<[f \in DOMAIN row |-> row[f][1]]>>
    /\ tasks' = [tasks EXCEPT ![1].state = "finished"]
    /\ UNCHANGED <<args, othervars, askvars, storage, idx, doc_hits, doc_misses,
                   report, semaphore, started, completed, yielded>>

NextRow ==
    \/ RowContent
    \/ RowAssemble

SpecRow == InitRow /\ [][NextRow]_vars

\* C33: row assembly is total over well-formed raw payloads: when optional
\* sections (choices, citations, search_results) are absent from the
\* payload no exception is raised and the absent sections come out as
\* empty collections (the content as the empty text).
C33_TotalOverAbsentSections ==
    LET payload == tasks[1].payload
        absent == {"choices", "citations", "search_results"} \ DOMAIN payload
    IN  (entry = "process_single_query" /\ tasks[1].state = "finished" /\ absent # {}) =>
            /\ pc = "done"
            /\ Len(results) = 1
            /\ "citations" \in absent =>
                  results[1].citations = <<>> /\ results[1].enriched_citations = <<>>
            /\ "search_results" \in absent =>
                  /\ results[1].search_results = <<>>
                  /\ \A i \in DOMAIN results[1].enriched_citations :
                        ~results[1].enriched_citations[i].matched
            /\ "choices" \in absent =>
                  results[1].content = "" /\ results[1].sonar_response = "No response"
            /\ Len(results[1].enriched_citations) = Len(results[1].citations)

\* a payload without search results and without choices, with citations,
\* has been made into a row
C33_Witness ==
    /\ entry = "process_single_query" /\ pc = "done"
    /\ DOMAIN tasks[1].payload = {"id", "citations"}
    /\ Len(results) = 1
    /\ Len(results[1].enriched_citations) = 2

\* C34: in ask_multiple_stream the response of every miss has been written
\* to the storage before the Answer of that miss is yielded, for a response
\* without error and for a response that carries an error: when the Answer
\* is yielded its task has returned from save_response and the storage
\* holds under the key of the question the response of that task (or of a
\* later writer of the same key).
C34_SavedBeforeYielded ==
    [][(Len(yielded') > Len(yielded) /\ yielded'[Len(yielded')].source = "miss") =>
          LET y == yielded'[Len(yielded')]
              key == GetQuestionKey(questions[y.q])
              writers == { t \in DOMAIN tasks :
                             /\ GetQuestionKey(questions[tasks[t].q]) = key
                             /\ tasks[t].state = "finished" }
          IN  /\ key \in DOMAIN storage
              /\ \E t \in writers : storage[key] = tasks[t].response
              /\ \E t \in writers :
                    /\ tasks[t].q = y.q
                    /\ y.answer = BuildAnswer(questions[y.q], tasks[t].response)]_vars

\* the Answers of a response with error and of one without have been
\* yielded for two misses, both responses being in the storage
C34_Witness ==
    /\ entry = "ask_multiple_stream" /\ pc = "done"
    /\ \E i, j \in DOMAIN yielded :
          /\ yielded[i].source = "miss" /\ yielded[j].source = "miss"
          /\ storage[GetQuestionKey(questions[yielded[i].q])].error # Null
          /\ storage[GetQuestionKey(questions[yielded[j].q])].error = Null

MaxSqlCalls == 3

\* the lock is taken whatever its state is
LockFreeAlways(st) == TRUE

\* asyncio.Lock.acquire takes the lock without waiting when it is not
\* locked and nobody waits for it; otherwise the caller queues.  release
\* unlocks and wakes the first waiter, which locks when it runs.
LockFree(st) == ~st.locked /\ st.waiters = <<>>

\* the call leaves _initialize_db (or enters the method with the schema
\* there) and does "async with self._lock" of the method on storage st
EnterMethod(st, i) ==
    IF LockFree(st)
    THEN [storage |-> [st EXCEPT !.locked = TRUE], state |-> "helper"]
    ELSE [storage |-> [st EXCEPT !.waiters = Append(@, i)], state |-> "wait_lock"]

\* a coroutine calls store_query_result, retrieve_query_results,
\* clear_all_results or get_result_count and runs up to its first
\* suspension: _initialize_db returns at once when _initialized is set;
\* otherwise it takes the lock, finds _initialized still unset and awaits
\* _create_schema in the executor, or it waits for the lock
SqlCall(op) ==
    /\ entry = "SQLiteStorage"
    /\ Len(ops) < MaxSqlCalls
    /\ LET i == Len(ops) + 1
           call == [op |-> op, row |-> RowOf(i), first |-> ~storage.initialized]
           next == IF storage.initialized THEN EnterMethod(storage, i)
                   ELSE IF LockFree(storage)
                   THEN [storage |-> [storage EXCEPT !.locked = TRUE], state |-> "creating"]
                   ELSE [storage |-> [storage EXCEPT !.waiters = Append(@, i)],
                         state |-> "init_wait"]
       IN  /\ storage' = next.storage
           /\ ops' = Append(ops, call @@ [state |-> next.state,
                                          created |-> next.state = "creating"])
    /\ UNCHANGED <<args, runvars, reads, llmvars, expvars, spray_args, askvars, pc,
                   idx, doc_hits, doc_misses, report, semaphore, started, tasks,
                   completed, yielded, results, db>>

\* the first waiter runs after a release and locks.  In _initialize_db it
\* checks _initialized again: set, it returns, which releases the lock, and
\* goes on to the lock of the method
SqlWake(i) ==
    /\ entry = "SQLiteStorage"
    /\ ~storage.locked
    /\ storage.waiters # <<>>
    /\ Head(storage.waiters) = i
    /\ LET st == [storage EXCEPT !.waiters = Tail(@)]
           next == IF ops[i].state = "wait_lock"
                   THEN [storage |-> [st EXCEPT !.locked = TRUE], state |-> "helper"]
                   ELSE IF ~st.initialized
                   THEN [storage |-> [st EXCEPT !.locked = TRUE], state |-> "creating"]
                   ELSE EnterMethod(st, i)
       IN  /\ storage' = next.storage
           /\ ops' = [ops EXCEPT ![i].state = next.state,
                                 ![i].created = @ \/ next.state = "creating"]
    /\ UNCHANGED <<args, runvars, reads, llmvars, expvars, spray_args, askvars, pc,
                   idx, doc_hits, doc_misses, report, semaphore, started, tasks,
                   completed, yielded, results, db>>

\* _create_schema has run in the executor: _initialized = True, the lock
\* of _initialize_db is released, the call goes on to the lock of the method
SqlSchemaCreated(i) ==
    /\ entry = "SQLiteStorage"
    /\ ops[i].state = "creating"
    /\ LET next == EnterMethod([storage EXCEPT !.initialized = TRUE, !.locked = FALSE], i)
       IN  /\ storage' = next.storage
           /\ ops' = [ops EXCEPT ![i].state = next.state]
    /\ UNCHANGED <<args, runvars, reads, llmvars, expvars, spray_args, askvars, pc,
                   idx, doc_hits, doc_misses, report, semaphore, started, tasks,
                   completed, yielded, results, db>>

\* the helper of the method has run in the executor and committed; the lock
\* is released and the call returns
SqlHelperReturns(i) ==
    /\ entry = "SQLiteStorage"
    /\ ops[i].state = "helper"
    /\ db' = IF ops[i].op = "store"
             THEN StoreResultSync(db, ops[i].row, Len(db) + 1, Len(db) + 1)
             ELSE IF ops[i].op = "clear" THEN DeleteAll(db) ELSE db
    /\ storage' = [storage EXCEPT !.locked = FALSE]
    /\ ops' = [ops EXCEPT ![i].state = "returned"]
    /\ UNCHANGED <<args, runvars, reads, llmvars, expvars, spray_args, askvars, pc,
                   idx, doc_hits, doc_misses, report, semaphore, started, tasks,
                   completed, yielded, results>>

\* SQLiteStorage.__init__: a new lock, _initialized = False; the file
\* holds no table yet
InitSqlite ==
    /\ entry = "SQLiteStorage"
    /\ question_set = [template |-> <<>>, word_sets |-> <<>>]
    /\ storage = [initialized |-> FALSE, locked |-> FALSE, waiters |-> <<>>]
    /\ overwrite = FALSE
    /\ max_workers = 1
    /\ pc = "start"
    /\ idx = 1
    /\ doc_hits = <<>>
    /\ doc_misses = <<>>
    /\ report = None
    /\ semaphore = 0
    /\ started = 0
    /\ tasks = <<>>
    /\ completed = <<>>
    /\ yielded = <<>>
    /\ results = <<>>
    /\ calls = <<>>
    /\ seed = <<>>
    /\ writes = <<>>
    /\ FirstRun
    /\ NoClient
    /\ NoExpansion
    /\ NoStore
    /\ NoSpray

NextSqlite ==
    \/ \E op \in {"store", "retrieve", "clear", "count"} : SqlCall(op)
    \/ \E i \in DOMAIN ops : SqlWake(i)
    \/ \E i \in DOMAIN ops : SqlSchemaCreated(i)
    \/ \E i \in DOMAIN ops : SqlHelperReturns(i)

SpecSqlite == InitSqlite /\ [][NextSqlite]_vars

\* C36: for one SQLiteStorage instance, however the calls of store,
\* retrieve, clear and count interleave, at most one synchronous database
\* helper executes at any instant, and the schema is created at most once
\* even when the first calls arrive together.
C36_OneHelperOneSchema ==
    entry = "SQLiteStorage" =>
        /\ Cardinality({ i \in DOMAIN ops : ops[i].state \in {"creating", "helper"} }) <= 1
        /\ Cardinality({ i \in DOMAIN ops : ops[i].created }) <= 1
        /\ \A i \in DOMAIN ops : ops[i].state \in {"helper", "returned"} => storage.initialized

\* three calls arrived before the schema was there; all have returned
C36_Witness ==
    /\ entry = "SQLiteStorage"
    /\ Len(ops) = 3
    /\ \A i \in DOMAIN ops : ops[i].first /\ ops[i].state = "returned"
    /\ \E i \in DOMAIN ops : ops[i].created

\* ------------------------------ ask_multiple_stream: termination
\* a batch of MaxQ questions, some of them stored without error
InitLive ==
    /\ Init
    /\ overwrite = FALSE
    /\ question_set.template = <<Lit(<<"Does">>), Param("country")>>
    /\ question_set.word_sets[1].values =
          [k \in 1..MaxQ |-> IF k % 2 = 1 THEN <<"France">> ELSE <<"Germany">>]
    /\ \A key \in DOMAIN storage : storage[key].error = Null

\* the event loop runs every coroutine that is ready, every query and
\* storage call returns or raises, and the consumer keeps reading the stream
SpecLive == InitLive /\ [][Next]_vars /\ WF_vars(Next)

\* C37: with at least one worker, and every query and storage call
\* returning or raising, ask_multiple_stream ends: every miss gets a worker
\* slot, a worker that raises gives its slot back, and the stream ends
\* after its last Answer (no deadlock on the semaphore); in the end every
\* slot is free again.
C37_StreamEnds ==
    /\ <>[](/\ pc \in {"done", "raised"}
            /\ \A t \in DOMAIN tasks : tasks[t].state \in {"finished", "failed"}
            /\ tasks # <<>> => semaphore = max_workers)
    /\ [][\A t \in DOMAIN tasks :
            (t \in DOMAIN tasks' /\ tasks[t].state # "failed" /\ tasks'[t].state = "failed")
                => semaphore' = semaphore + 1]_vars
    /\ [](pc = "done" => \A t \in DOMAIN tasks : tasks[t].state = "finished")

\* one worker, two misses: the query of the first raised, the second got
\* the slot afterwards, and the stream has ended
C37_Witness ==
    /\ entry = "ask_multiple_stream"
    /\ max_workers = 1
    /\ Len(tasks) = 2
    /\ pc = "raised"
    /\ \E t, u \in DOMAIN tasks : tasks[t].state = "failed" /\ tasks[u].state = "finished"
    /\ semaphore = 1

\* ------------------------------------------- Workflow.dump_answers
\* storage.get_stored_questions(): the stored Questions, each one once
GetStoredQuestions(st) ==
    SelectSeq(questions, LAMBDA question : GetQuestionKey(question) \in DOMAIN st)

\* the loop over filter.keys(): a key that the word_set does not have, and
\* a value that the key's predicate rejects, each "continue" with the next
\* key; after the last key the body of the outer loop goes on
PassesFilter(filter, question) == TRUE

\* filter is None (<<>>) or a dict (<<f>>) from keys to predicates, a
\* predicate being the set of the values it accepts
Filters ==
    {<<>>} \cup
    { <<f>> : f \in UNION { [ks -> SUBSET Words] : ks \in SUBSET {"country", "topic"} } }

\* dump_answers(filter) is called on a storage holding some of the Questions
InitDump ==
    /\ entry = "dump_answers"
    /\ question_set \in { qs \in AskQuestionSets :
                            qs.template = <<Lit(<<"Does">>), Param("country")>> }
    /\ storage \in Storages(question_set)
    /\ calls \in { <<[filter |-> f]>> : f \in Filters }
    /\ overwrite = FALSE
    /\ max_workers = 1
    /\ pc = "running"
    /\ idx = 1
    /\ doc_hits = <<>>
    /\ doc_misses = <<>>
    /\ report = None
    /\ semaphore = 0
    /\ started = 0
    /\ tasks = <<>>
    /\ completed = <<>>
    /\ yielded = <<>>
    /\ results = <<>>
    /\ seed = <<>>
    /\ writes = <<>>
    /\ FirstRun
    /\ NoClient
    /\ NoExpansion
    /\ NoStore
    /\ NoSpray

\* one round of "async for question in ...": the filter loop, then
\* get_response, build_answer and the yield
DumpQuestion ==
    /\ entry = "dump_answers"
    /\ pc = "running"
    /\ idx <= Len(GetStoredQuestions(storage))
    /\ LET question == GetStoredQuestions(storage)[idx]
       IN  yielded' = IF calls[1].filter = <<>> \/ PassesFilter(calls[1].filter[1], question)
                      THEN Append(yielded,
                              [answer |-> BuildAnswer(question, GetResponse(storage, question)),
                               question |-> question])
                      ELSE yielded
    /\ idx' = idx + 1
    /\ UNCHANGED <<args, othervars, results, askvars, storage, pc, doc_hits,
                   doc_misses, report, semaphore, started, tasks, completed>>

\* the stored Questions are exhausted: the generator returns
DumpEnd ==
    /\ entry = "dump_answers"
    /\ pc = "running"
    /\ idx > Len(GetStoredQuestions(storage))
    /\ pc' = "done"
    /\ UNCHANGED <<args, othervars, results, askvars, storage, idx, doc_hits,
                   doc_misses, report, semaphore, started, tasks, completed, yielded>>

NextDump ==
    \/ DumpQuestion
    \/ DumpEnd

SpecDump == InitDump /\ [][NextDump]_vars

\* C40: dump_answers(filter) yields an Answer only for stored questions
\* whose word_set value satisfies the predicate of every filter key that
\* the word_set has; with filter None it yields exactly one Answer per
\* stored question.
C40_DumpAppliesFilter ==
    entry = "dump_answers" =>
        /\ \A k \in DOMAIN yielded :
              /\ GetQuestionKey(yielded[k].question) \in DOMAIN storage
              /\ calls[1].filter # <<>> =>
                    \A key \in DOMAIN calls[1].filter[1] \cap DOMAIN yielded[k].question.word_set :
                        yielded[k].question.word_set[key] \in calls[1].filter[1][key]
        /\ (pc = "done" /\ calls[1].filter = <<>>) =>
              \A key \in DOMAIN storage :
                  Cardinality({ k \in DOMAIN yielded :
                                  GetQuestionKey(yielded[k].question) = key }) = 1

====
